---- MODULE Spec2Model ----
(***************************************************************************)
(* The file-upload web application: the upload route with its              *)
(* degrade-gracefully chain (temp file, local analysis, Google Drive,      *)
(* Gemini), and the instruction routes (create, generate-feedback,         *)
(* fill-pmp-checklist) over the in-process instructionsCache and the       *)
(* instructions directory on disk.                                         *)
(*                                                                         *)
(* A request is a process: req[p] holds the handler's local variables and  *)
(* its position (pc).  The external world (filesystem, Drive, Gemini)      *)
(* answers nondeterministically within the outcomes the code handles.      *)
(***************************************************************************)
EXTENDS Integers, Sequences, FiniteSets, TLC

\* ------------------------------------------------------------------ bounds
\* Number of requests the server receives in one run: uploads; instruction
\* creations; list or generate requests on a server that holds an instruction.
MaxUploads == 1
MaxCreates == 1
MaxInstructionRequests == 2

\* ------------------------------------------------------------------ values
Null == "null"

Procs == {"p1", "p2"}

\* File names are kept as base + extension so that the code's extension tests
\* (endsWith, path.extname, toLowerCase) can be computed.
FileName(base, ext) == [base |-> base, ext |-> ext]
NameStr(n) == n.base \o n.ext

toLowerCase(s) ==
    CASE s = ".TXT" -> ".txt"
      [] s = ".XLSX" -> ".xlsx"
      [] OTHER -> s

\* Files a browser may send to the upload route (name, byte length).
UploadFiles ==
    { [name |-> FileName("report", ".xlsx"), size |-> 2048],
      [name |-> FileName("my notes", ".TXT"), size |-> 0] }

\* Files a browser may send to the instruction route (name, bytes): a text file
\* holding "ok", a text file in a legacy encoding whose second byte (0xFF) is not
\* valid UTF-8, and a binary file.
InstructionFiles ==
    { [name |-> FileName("guide", ".txt"), bytes |-> <<111, 107>>],
      [name |-> FileName("legacy", ".txt"), bytes |-> <<111, 255>>],
      [name |-> FileName("rules", ".bin"), bytes |-> <<0, 255>>] }

IdOf(t) == "instruction_" \o ToString(t)

\* Instruction ids a client may name in a request.
RequestIds == {IdOf(0), IdOf(1)}

\* Texts the Gemini model may answer to the upload analysis prompt.
GeminiTexts == {"", "AI analysis"}


\* A JavaScript null/undefined where the code holds an object.
NullRec == [isNull |-> TRUE]

\* JavaScript truthiness of a string-or-null value (x || y, if (x), !!x).
Truthy(s) == s # Null /\ s # ""

\* a || b on string-or-null values.
OrElse(a, b) == IF Truthy(a) THEN a ELSE b

\* ------------------------------------------------------------------ LocalAnalyzer
isTextFile(extension) ==
    extension \in {".txt", ".md", ".csv", ".json", ".xml", ".js", ".ts", ".html",
                   ".css", ".py", ".java", ".cpp", ".c", ".h", ".yaml", ".yml",
                   ".toml", ".ini", ".log"}

getFileTypeAnalysis(extension) ==
    CASE extension = ".xlsx" -> "Excel Spreadsheet"
      [] extension = ".xls" -> "Legacy Excel Spreadsheet"
      [] extension = ".csv" -> "Comma-Separated Values"
      [] extension = ".pdf" -> "Portable Document Format"
      [] extension = ".docx" -> "Word Document"
      [] extension = ".txt" -> "Plain Text"
      [] extension = ".json" -> "JSON Data"
      [] OTHER -> "Unknown File Type"

\* Mutant of analyzeFile: the catch branch returns no feedback text.
analyzeFile_noFeedbackOnError(statOk, fileName, size, instructionFileUrl) ==
    IF statOk
    THEN [ success |-> TRUE,
           feedback |-> "## File Analysis Report " \o NameStr(fileName),
           fileInfo |-> [ name |-> NameStr(fileName), size |-> size,
                          extension |-> toLowerCase(fileName.ext) ] ]
    ELSE [ success |-> FALSE, error |-> "Failed to analyze file locally",
           feedback |-> Null ]

\* analyzeFile: statOk is whether fs.statSync(filePath) succeeds.  It never throws:
\* the failure is returned as a result that still carries a feedback text.
analyzeFile(statOk, fileName, size, instructionFileUrl) ==
    IF statOk
    THEN [ success |-> TRUE,
           feedback |-> "## File Analysis Report " \o NameStr(fileName)
                        \o " " \o getFileTypeAnalysis(toLowerCase(fileName.ext))
                        \o (IF isTextFile(toLowerCase(fileName.ext))
                            THEN " ### Content Analysis" ELSE "")
                        \o " ### Instructions Provided "
                        \o (IF instructionFileUrl # ""
                            THEN "Instruction file URL provided: " \o instructionFileUrl
                            ELSE "No specific analysis instructions were provided."),
           fileInfo |-> [ name |-> NameStr(fileName), size |-> size,
                          extension |-> toLowerCase(fileName.ext) ] ]
    ELSE [ success |-> FALSE,
           error |-> "Failed to analyze file locally",
           feedback |-> "Could not perform local file analysis. Please check file permissions and try again." ]

\* ------------------------------------------------------------------ GoogleDriveService
\* What the Drive API does with one uploadFile call: both requests succeed; the
\* create request is refused for lack of storage quota, or fails otherwise; the
\* create request answers without a file id, after which no permission is
\* requested; the permission request fails.
DriveOutcomes == {"ok", "quota", "createFails", "noId", "permissionFails"}

PublicUrl(fileId) == "https://drive.google.com/file/d/" \o fileId \o "/view?usp=sharing"
DirectUrl(fileId) == "https://drive.google.com/uc?id=" \o fileId \o "&export=download"

\* uploadFile's completion: a success value, the quota failure value, or a throw
\* (thrown = TRUE, with the Error's message).
uploadFile(outcome, fileId) ==
    CASE outcome = "ok" ->
           [ thrown |-> FALSE, success |-> TRUE, fileId |-> fileId,
             publicUrl |-> PublicUrl(fileId), directUrl |-> DirectUrl(fileId),
             error |-> Null ]
      [] outcome = "noId" ->
           [ thrown |-> FALSE, success |-> TRUE, fileId |-> Null,
             publicUrl |-> PublicUrl("undefined"), directUrl |-> DirectUrl("undefined"),
             error |-> Null ]
      [] outcome = "quota" ->
           [ thrown |-> FALSE, success |-> FALSE, fileId |-> Null,
             publicUrl |-> Null, directUrl |-> Null,
             error |-> "Service account requires shared drive or OAuth delegation" ]
      [] OTHER ->
           [ thrown |-> TRUE, message |-> "Failed to upload file to Google Drive" ]

\* The remote Drive after the call: the file exists once files.create succeeded,
\* and is public once permissions.create succeeded.
DriveAfter(d, outcome, fileId, name) ==
    CASE outcome = "ok" -> d \cup {[id |-> fileId, name |-> name, public |-> TRUE]}
      [] outcome \in {"permissionFails", "noId"} ->
           d \cup {[id |-> fileId, name |-> name, public |-> FALSE]}
      [] OTHER -> d

NewFileId(d) == "file" \o ToString(Cardinality(d))

\* The requests uploadFile sends to the Drive API, in order: permissions.create
\* is sent only when files.create answered with a file id.
driveCalls(outcome) ==
    IF outcome \in {"ok", "permissionFails"}
    THEN <<"files.create", "permissions.create">>
    ELSE <<"files.create">>

\* ------------------------------------------------------------------ GeminiService
GeminiOutcomes == {"ok", "rateLimit", "keyError", "otherError"}

analyzeFileWithInstruction(outcome, text) ==
    CASE outcome = "ok" ->
           [ thrown |-> FALSE, success |-> TRUE, feedback |-> text ]
      [] outcome = "rateLimit" ->
           [ thrown |-> TRUE,
             message |-> "Gemini API rate limit exceeded. Please try again in a few minutes." ]
      [] outcome = "keyError" ->
           [ thrown |-> TRUE, message |-> "Gemini API key not configured or invalid" ]
      [] OTHER ->
           [ thrown |-> TRUE, message |-> "Failed to analyze file with instruction" ]

\* ------------------------------------------------------------------ upload route helpers
\* file.name.replace(/[^a-zA-Z0-9.-]/g, '_')
safeName(n) ==
    (CASE n.base = "my notes" -> "my_notes" [] OTHER -> n.base) \o n.ext

\* Mutant of hasGoogleDrive: the service-account email is not checked.
hasGoogleDrive_twoOfThree(e) == e.GOOGLE_PROJECT_ID /\ e.GOOGLE_PRIVATE_KEY

hasGoogleDrive(e) == e.GOOGLE_PROJECT_ID /\ e.GOOGLE_PRIVATE_KEY /\ e.GOOGLE_SERVICE_ACCOUNT_EMAIL

hasGemini(e) == e.GEMINI_API_KEY

\* metadata.directUrl || metadata.publicUrl
instructionUrlOf(metadata) == OrElse(metadata.directUrl, metadata.publicUrl)

\* Mutant of shouldCallGemini: the API key is not checked.
shouldCallGemini_ignoreKey(e, uploadResult) ==
    uploadResult # NullRec /\ Truthy(uploadResult.directUrl)

\* Mutant of shouldCallGemini: the upload result is not checked.
shouldCallGemini_ignoreUpload(e, uploadResult) == hasGemini(e)

\* Line 89: hasGemini && uploadResult && uploadResult.directUrl
shouldCallGemini(e, uploadResult) ==
    hasGemini(e) /\ uploadResult # NullRec /\ Truthy(uploadResult.directUrl)

\* Mutant of uploadResultOf: a returned failure value is kept as the upload result.
uploadResultOf_anyReturn(result) ==
    IF result.thrown THEN NullRec ELSE result

\* Lines 70-80: what the handler keeps of the uploadFile completion.
uploadResultOf(result) ==
    IF ~result.thrown /\ result.success THEN result ELSE NullRec

driveErrorOf(result) ==
    IF result.thrown THEN result.message
    ELSE IF result.success THEN Null
    ELSE OrElse(result.error, "Upload failed")

\* Mutant of analysisAfterGemini: the local analysis is never replaced.
analysisAfterGemini_keepLocal(analysisResult, ai) == analysisResult

\* Lines 97-107: the analysis the handler keeps after the Gemini call completed.
analysisAfterGemini(analysisResult, ai) ==
    IF ~ai.thrown /\ ai.success THEN [success |-> ai.success, feedback |-> ai.feedback]
    ELSE analysisResult

\* Value of aiAnalysisResult after the call: unassigned (null) when it threw.
aiResultOf(ai) ==
    IF ai.thrown THEN NullRec ELSE [success |-> ai.success, feedback |-> ai.feedback]

\* Mutant of geminiErrorAfterCall: the thrown message is replaced by a fixed text.
geminiErrorAfterCall_generic(ai) ==
    IF ~ai.thrown /\ ai.success THEN Null ELSE "Analysis failed"

geminiErrorAfterCall(ai) ==
    IF ai.thrown THEN ai.message
    ELSE IF ai.success THEN Null ELSE "Analysis failed"

\* Lines 108-112: the else-if chain when the Gemini call is not made.
geminiErrorNoCall(e, uploadResult) ==
    IF ~hasGemini(e) THEN "Gemini API not configured"
    ELSE IF uploadResult = NullRec THEN "No file URL available for AI analysis"
    ELSE Null

\* Mutant of serviceStatusOf: the local analysis is always reported as done.
serviceStatusOf_localTrue(analysisResult, uploadResult, driveError, aiAnalysisResult, geminiError) ==
    [ localAnalysis |-> TRUE,
      googleDrive |-> IF uploadResult # NullRec THEN "success"
                      ELSE OrElse(driveError, "failed"),
      geminiAnalysis |-> IF aiAnalysisResult # NullRec THEN "success"
                         ELSE OrElse(geminiError, "unavailable") ]

\* Lines 115-119: localAnalysis is the success flag of the analysis that is returned.
serviceStatusOf(analysisResult, uploadResult, driveError, aiAnalysisResult, geminiError) ==
    [ localAnalysis |-> analysisResult.success,
      googleDrive |-> IF uploadResult # NullRec THEN "success"
                      ELSE OrElse(driveError, "failed"),
      geminiAnalysis |-> IF aiAnalysisResult # NullRec THEN "success"
                         ELSE OrElse(geminiError, "unavailable") ]

getStatusMessage(status) ==
    IF status.googleDrive = "success" /\ status.geminiAnalysis = "success"
    THEN "File uploaded to Google Drive and analyzed with AI successfully!"
    ELSE IF status.localAnalysis /\ status.googleDrive = "success"
    THEN "File uploaded to Google Drive with local analysis (AI analysis unavailable)."
    ELSE IF status.localAnalysis
    THEN "File analyzed locally. Configure Google Drive and Gemini API for enhanced features."
    ELSE "File processed with limited features. Check configuration and try again."

\* Mutant of fieldOrNull: the field of the upload result is dropped.
fieldOrNull_dropped(uploadResult, field) == Null

\* uploadResult?.field || null
fieldOrNull(uploadResult, field) ==
    IF uploadResult = NullRec THEN Null ELSE OrElse(uploadResult[field], Null)

uploadResponse(file, analysisResult, uploadResult, driveError, aiAnalysisResult, geminiError) ==
    [ status |-> 200,
      success |-> TRUE,
      file |-> [ name |-> NameStr(file.name), size |-> file.size,
                 fileId |-> fieldOrNull(uploadResult, "fileId"),
                 publicUrl |-> fieldOrNull(uploadResult, "publicUrl"),
                 directUrl |-> fieldOrNull(uploadResult, "directUrl") ],
      analysis |-> analysisResult,
      serviceStatus |-> serviceStatusOf(analysisResult, uploadResult, driveError,
                                        aiAnalysisResult, geminiError),
      message |-> getStatusMessage(serviceStatusOf(analysisResult, uploadResult, driveError,
                                                   aiAnalysisResult, geminiError)) ]

errorResponse(status, error) == [status |-> status, error |-> error]


\* ------------------------------------------------------------------ instruction record helpers
\* { ...r, [key]: val }
Spread(r, key, val) ==
    [k \in DOMAIN r \cup {key} |-> IF k = key THEN val ELSE r[k]]

\* Mutant of MapSet: an existing entry is not overwritten.
MapSet_keepFirst(m, id, val) ==
    [k \in DOMAIN m \cup {id} |-> IF k \in DOMAIN m THEN m[k] ELSE val]

\* map.set(id, val) on the cache or on a directory of files.
MapSet(m, id, val) ==
    [k \in DOMAIN m \cup {id} |-> IF k = id THEN val ELSE m[k]]

textExtensions == {".txt", ".md", ".csv", ".json", ".xml", ".js", ".ts", ".html", ".css"}

\* The character U+FFFD that the decoder puts in place of an invalid byte.
ReplacementChar == "<U+FFFD>"

\* Buffer.from(bytes).toString('utf-8'), for single-byte characters: an ASCII byte
\* is its character, a byte that cannot start a UTF-8 sequence is replaced.
decodeByte(b) ==
    CASE b = 111 -> "o"
      [] b = 107 -> "k"
      [] b = 0 -> "<NUL>"
      [] OTHER -> ReplacementChar

\* Every byte is an ASCII character.
ValidAscii(bytes) == \A i \in 1..Len(bytes) : bytes[i] < 128

RECURSIVE utf8Decode(_)
utf8Decode(bytes) ==
    IF bytes = <<>> THEN "" ELSE decodeByte(Head(bytes)) \o utf8Decode(Tail(bytes))

binaryPlaceholder(file) ==
    "[Binary file: " \o NameStr(file.name)
        \o "] - Content will be processed by AI when analyzing files."

\* Mutant of instructionContent: every file is treated as binary.
instructionContent_alwaysPlaceholder(file) == binaryPlaceholder(file)

\* Lines 46-55: text files keep their decoded content, others a placeholder.
instructionContent(file) ==
    IF toLowerCase(file.name.ext) \in textExtensions
    THEN utf8Decode(file.bytes)
    ELSE binaryPlaceholder(file)

instructionTempPath(instructionId) == "/tmp/" \o instructionId \o ".txt"

\* Mutant of driveFileOf: a thrown backup error is recorded as a successful backup.
driveFileOf_thrownAsSuccess(result) ==
    IF result.thrown THEN [success |-> TRUE, error |-> "Upload failed"]
    ELSE [k \in DOMAIN result \ {"thrown"} |-> result[k]]

\* Lines 78-81 and 84-93: the record built from the uploadFile completion.
driveFileOf(result) ==
    IF result.thrown THEN [success |-> FALSE, error |-> "Upload failed"]
    ELSE [k \in DOMAIN result \ {"thrown"} |-> result[k]]

driveField(driveFile, field) ==
    IF field \in DOMAIN driveFile THEN OrElse(driveFile[field], Null) ELSE Null

instructionDataOf(instructionId, file, content, driveFile, createdAt) ==
    [ id |-> instructionId,
      fileName |-> NameStr(file.name),
      content |-> content,
      publicUrl |-> driveField(driveFile, "publicUrl"),
      directUrl |-> driveField(driveFile, "directUrl"),
      fileId |-> driveField(driveFile, "fileId"),
      createdAt |-> createdAt,
      hasGoogleDriveBackup |-> driveFile.success ]

\* What the local save (lines 97-108) leaves on disk.
DiskOutcomes == {"ok", "noDir", "txtFails", "metaFails"}

\* The record a creation stores, from the file and the Drive outcome.
createdRecord(id, file, outcome, fileId, createdAt) ==
    instructionDataOf(id, file, instructionContent(file),
                      driveFileOf(uploadFile(outcome, fileId)), createdAt)

\* Lines 97-108: content file first, then metadata file; a failed write stops the
\* save.  A content file keeps its birth time when it is written again.
diskTxtAfterCreate(txt, id, content, diskOutcome, t) ==
    IF diskOutcome \in {"ok", "metaFails"}
    THEN MapSet(txt, id, [ content |-> content,
                           birthtime |-> IF id \in DOMAIN txt THEN txt[id].birthtime ELSE t ])
    ELSE txt

diskMetaAfterCreate(meta, id, data, diskOutcome) ==
    IF diskOutcome = "ok" THEN MapSet(meta, id, data) ELSE meta

\* ------------------------------------------------------------------ state
VARIABLES
    env,                \* process.env: which credentials are set
    now,                \* Date.now()
    started,            \* requests received so far, per route family
    budget,             \* requests the clients will send in this run, per route family
    workers,            \* the request slots the server runs concurrently
    req,                \* per slot: the handler's locals, position and response
    tempFiles,          \* paths that exist in the temp directories
    instructionsCache,  \* global.instructionsCache: id -> InstructionData
    diskTxt,            \* instructions/<id>.txt: id -> content and birth time
    diskMeta,           \* instructions/<id>.meta.json: id -> metadata
    drive               \* files on the remote Google Drive

vars == <<env, now, started, budget, workers, req, tempFiles, instructionsCache,
          diskTxt, diskMeta, drive>>

Envs ==
    [ GOOGLE_PROJECT_ID : BOOLEAN, GOOGLE_PRIVATE_KEY : BOOLEAN,
      GOOGLE_SERVICE_ACCOUNT_EMAIL : BOOLEAN, GEMINI_API_KEY : BOOLEAN ]

IdleReq == [kind |-> "none", pc |-> "idle", resp |-> NullRec, log |-> <<>>]

EmptyMap == [k \in {} |-> NullRec]

\* State after the server process has started: nothing cached, empty directories.
InitStore ==
    /\ now = 0
    /\ tempFiles = {}
    /\ instructionsCache = EmptyMap
    /\ diskTxt = EmptyMap
    /\ diskMeta = EmptyMap
    /\ drive = {}

\* The server after one instruction creation has completed (the effects of
\* CreateWriteTemp, CreateDrive and CreateCleanup on a fresh server).
StoreAfterCreate(file, outcome, diskOutcome) ==
    LET id == IdOf(0)
        fileId == NewFileId({})
        data == createdRecord(id, file, outcome, fileId, 1)
    IN /\ now = 1
       /\ tempFiles = {}
       /\ instructionsCache = MapSet(EmptyMap, id, data)
       /\ diskTxt = diskTxtAfterCreate(EmptyMap, id, instructionContent(file), diskOutcome, 1)
       /\ diskMeta = diskMetaAfterCreate(EmptyMap, id, data, diskOutcome)
       /\ drive = DriveAfter({}, outcome, fileId, id \o "_" \o NameStr(file.name))

\* A server on which one instruction has been created from one of the files, with
\* one of the Drive and disk outcomes.
CreatedStore(files, outcomes, diskOutcomes) ==
    \E file \in files, outcome \in outcomes, diskOutcome \in diskOutcomes :
        /\ ~hasGoogleDrive(env) => outcome = "createFails"
        /\ StoreAfterCreate(file, outcome, diskOutcome)

\* The three storage credentials are set together or not at all.
StorageAllOrNone(e) ==
    /\ e.GOOGLE_PROJECT_ID = e.GOOGLE_PRIVATE_KEY
    /\ e.GOOGLE_PRIVATE_KEY = e.GOOGLE_SERVICE_ACCOUNT_EMAIL

\* A run is a session of instruction creations on a fresh server, a session of
\* list and generate requests on a server that holds one created instruction, or
\* a session of upload requests on a server that is fresh or holds one text
\* instruction.  Upload sessions run under every combination of credentials.
Init ==
    /\ env \in Envs
    /\ workers = {"p1"}
    /\ started = [upload |-> 0, create |-> 0, instruction |-> 0]
    /\ req = [p \in Procs |-> IdleReq]
    /\ \/ /\ budget = [upload |-> 0, create |-> MaxCreates, instruction |-> 0]
          /\ StorageAllOrNone(env)
          /\ InitStore
       \/ /\ budget = [upload |-> 0, create |-> 0, instruction |-> MaxInstructionRequests]
          /\ StorageAllOrNone(env)
          /\ CreatedStore(InstructionFiles, DriveOutcomes, DiskOutcomes)
       \/ /\ budget = [upload |-> MaxUploads, create |-> 0, instruction |-> 0]
          /\ \/ InitStore
             \/ CreatedStore({f \in InstructionFiles : f.name.ext = ".txt"},
                             {"ok", "createFails"}, {"ok", "noDir"})

\* A slot can take a new request when its previous one has been answered.
CanStart(p, route) ==
    /\ p \in workers
    /\ req[p].pc \in {"idle", "done"}
    /\ started[route] < budget[route]

Event(op) == [op |-> op]

\* ------------------------------------------------------------------ upload route
\* Lines 12-18: read the form; no file -> 400 (finally finds tempFilePath null).
UploadReceive(p, file, instructionFileId) ==
    /\ CanStart(p, "upload")
    /\ started' = [started EXCEPT !.upload = @ + 1]
    /\ req' = [req EXCEPT ![p] =
         [ kind |-> "upload",
           pc |-> IF file = NullRec THEN "done" ELSE "write",
           file |-> file,
           instructionFileId |-> instructionFileId,
           tempFilePath |-> Null,
           instructionFileUrl |-> Null,
           localResult |-> NullRec,
           analysisResult |-> NullRec,
           uploadResult |-> NullRec,
           driveError |-> Null,
           aiAnalysisResult |-> NullRec,
           geminiError |-> Null,
           resp |-> IF file = NullRec THEN errorResponse(400, "No file provided")
                    ELSE NullRec,
           log |-> <<>> ]]
    /\ UNCHANGED <<env, now, budget, workers, tempFiles, instructionsCache, diskTxt, diskMeta, drive>>

uploadTempPath(t, name) == "temp/" \o ToString(t) \o "_" \o safeName(name)

\* Lines 20-32: create temp/ and write the file.  mkdirSync throws before
\* tempFilePath is assigned, writeFileSync after; both end in the catch (500).
UploadWriteTemp(p, fsOutcome) ==
    /\ req[p].kind = "upload" /\ req[p].pc = "write"
    /\ LET path == uploadTempPath(now, req[p].file.name) IN
       CASE fsOutcome = "ok" ->
              /\ tempFiles' = tempFiles \cup {path}
              /\ req' = [req EXCEPT ![p].tempFilePath = path,
                                    ![p].pc = "resolve",
                                    ![p].log = Append(@, Event("writeTemp"))]
         [] fsOutcome = "mkdirFails" ->
              /\ tempFiles' = tempFiles
              /\ req' = [req EXCEPT ![p].pc = "finally",
                                    ![p].resp = errorResponse(500, "Failed to process file upload")]
         [] OTHER ->
              /\ tempFiles' = tempFiles
              /\ req' = [req EXCEPT ![p].tempFilePath = path,
                                    ![p].pc = "finally",
                                    ![p].resp = errorResponse(500, "Failed to process file upload")]
    /\ UNCHANGED <<env, now, started, budget, workers, instructionsCache, diskTxt, diskMeta, drive>>

\* Lines 34-49: the instruction's URL is looked up in instructions/<id>.meta.json.
resolveInstructionUrl(instructionFileId, meta) ==
    IF Truthy(instructionFileId) /\ instructionFileId \in DOMAIN meta
    THEN instructionUrlOf(meta[instructionFileId])
    ELSE Null

\* Mutant of pcAfterResolve: the handler goes to the Drive upload first.
pcAfterResolve_driveFirst == "drive"

\* Lines 51-59: after the lookup the handler runs the local analysis, before any
\* remote call.
pcAfterResolve == "local"

UploadResolveInstruction(p) ==
    /\ req[p].kind = "upload" /\ req[p].pc = "resolve"
    /\ req' = [req EXCEPT ![p].instructionFileUrl =
                              resolveInstructionUrl(req[p].instructionFileId, diskMeta),
                          ![p].pc = pcAfterResolve,
                          ![p].log = Append(@, Event("resolveInstruction"))]
    /\ UNCHANGED <<env, now, started, budget, workers, tempFiles, instructionsCache, diskTxt, diskMeta, drive>>

\* Lines 57-59: the local analysis always runs; statSync fails when the temp file
\* is gone or unreadable.
UploadLocalAnalysis(p, statOk) ==
    /\ req[p].kind = "upload" /\ req[p].pc = "local"
    /\ statOk => req[p].tempFilePath \in tempFiles
    /\ LET r == analyzeFile(statOk, req[p].file.name, req[p].file.size,
                            OrElse(req[p].instructionFileUrl, ""))
       IN req' = [req EXCEPT ![p].localResult = r,
                             ![p].analysisResult = r,
                             ![p].pc = "drive",
                             ![p].log = Append(@, [op |-> "analyzeFile",
                                                   instructionFileUrl |-> OrElse(req[p].instructionFileUrl, "")])]
    /\ UNCHANGED <<env, now, started, budget, workers, tempFiles, instructionsCache, diskTxt, diskMeta, drive>>

\* Lines 61-83: one uploadFile call when the three credentials are set.
UploadDrive(p, outcome) ==
    /\ req[p].kind = "upload" /\ req[p].pc = "drive"
    /\ IF hasGoogleDrive(env)
       THEN LET fileId == NewFileId(drive)
                result == uploadFile(outcome, fileId)
            IN /\ drive' = DriveAfter(drive, outcome, fileId, NameStr(req[p].file.name))
               /\ req' = [req EXCEPT ![p].uploadResult = uploadResultOf(result),
                                     ![p].driveError = driveErrorOf(result),
                                     ![p].pc = "gemini",
                                     ![p].log = Append(@, [op |-> "uploadFile", outcome |-> outcome,
                                                             calls |-> driveCalls(outcome),
                                                             result |-> result])]
       ELSE /\ outcome = "ok"
            /\ drive' = drive
            /\ req' = [req EXCEPT ![p].driveError = "Google Drive not configured",
                                  ![p].pc = "gemini"]
    /\ UNCHANGED <<env, now, started, budget, workers, tempFiles, instructionsCache, diskTxt, diskMeta>>

RateLimitMessage == "Gemini API rate limit exceeded. Please try again in a few minutes."

\* Mutant of pcAfterGemini: a rate-limit error sends the handler back to the call.
pcAfterGemini_retryRateLimit(ai) ==
    IF ai.thrown /\ ai.message = RateLimitMessage THEN "gemini" ELSE "respond"

\* Lines 97-107: whatever the call returned or threw, the handler goes on to build
\* the response; the catch only records the message.
pcAfterGemini(ai) == "respond"

\* Lines 85-112: one analyzeFileWithInstruction call when the key is set and the
\* upload produced a direct URL.
UploadGemini(p, outcome, text) ==
    /\ req[p].kind = "upload" /\ req[p].pc = "gemini"
    /\ IF shouldCallGemini(env, req[p].uploadResult)
       THEN LET ai == analyzeFileWithInstruction(outcome, text)
            IN req' = [req EXCEPT ![p].aiAnalysisResult = aiResultOf(ai),
                                  ![p].analysisResult = analysisAfterGemini(@, ai),
                                  ![p].geminiError = geminiErrorAfterCall(ai),
                                  ![p].pc = pcAfterGemini(ai),
                                  ![p].log = Append(@, [op |-> "analyzeFileWithInstruction",
                                                        fileUrl |-> fieldOrNull(req[p].uploadResult, "directUrl"),
                                                        instructionFileUrl |-> req[p].instructionFileUrl,
                                                        result |-> ai])]
       ELSE /\ outcome = "ok" /\ text = ""
            /\ req' = [req EXCEPT ![p].geminiError = geminiErrorNoCall(env, req[p].uploadResult),
                                  ![p].pc = "respond"]
    /\ UNCHANGED <<env, now, started, budget, workers, tempFiles, instructionsCache, diskTxt, diskMeta, drive>>

\* Lines 114-134: the unified response.
UploadRespond(p) ==
    /\ req[p].kind = "upload" /\ req[p].pc = "respond"
    /\ req' = [req EXCEPT ![p].resp = uploadResponse(req[p].file, req[p].analysisResult,
                                                     req[p].uploadResult, req[p].driveError,
                                                     req[p].aiAnalysisResult, req[p].geminiError),
                          ![p].pc = "finally",
                          ![p].log = Append(@, Event("respond"))]
    /\ UNCHANGED <<env, now, started, budget, workers, tempFiles, instructionsCache, diskTxt, diskMeta, drive>>

\* Mutant of filesAfterCleanup: the unlink is left out.
filesAfterCleanup_noUnlink(files, tempFilePath, unlinkOk) == files

\* The finally block of both routes: unlinkSync is tried when the path is set and
\* the file exists; its failure is caught and logged, the file then stays.
filesAfterCleanup(files, tempFilePath, unlinkOk) ==
    IF tempFilePath # Null /\ tempFilePath \in files /\ unlinkOk
    THEN files \ {tempFilePath}
    ELSE files

\* Lines 145-154.
UploadCleanup(p, unlinkOk) ==
    /\ req[p].kind = "upload" /\ req[p].pc = "finally"
    /\ ~unlinkOk => req[p].tempFilePath \in tempFiles
    /\ tempFiles' = filesAfterCleanup(tempFiles, req[p].tempFilePath, unlinkOk)
    /\ req' = [req EXCEPT ![p].pc = "done",
                          ![p].log = IF req[p].tempFilePath \in tempFiles
                                     THEN Append(@, [op |-> "unlink", ok |-> unlinkOk])
                                     ELSE @]
    /\ UNCHANGED <<env, now, started, budget, workers, instructionsCache, diskTxt, diskMeta, drive>>


\* ------------------------------------------------------------------ instruction route: create
\* Lines 34-40: read the form; no file -> 400.
CreateReceive(p, file) ==
    /\ CanStart(p, "create")
    /\ started' = [started EXCEPT !.create = @ + 1]
    /\ req' = [req EXCEPT ![p] =
         [ kind |-> "create",
           pc |-> IF file = NullRec THEN "done" ELSE "write",
           file |-> file,
           instructionId |-> Null,
           content |-> Null,
           tempFilePath |-> Null,
           instructionData |-> NullRec,
           resp |-> IF file = NullRec
                    THEN errorResponse(400, "No instruction file provided")
                    ELSE NullRec,
           log |-> <<>> ]]
    /\ UNCHANGED <<env, now, budget, workers, tempFiles, instructionsCache, diskTxt, diskMeta, drive>>

\* Lines 42-63: content, id from Date.now(), temp file for the Drive upload.
CreateWriteTemp(p, writeOk) ==
    /\ req[p].kind = "create" /\ req[p].pc = "write"
    /\ LET instructionId == IdOf(now)
           path == instructionTempPath(instructionId)
       IN IF writeOk
          THEN /\ tempFiles' = tempFiles \cup {path}
               /\ req' = [req EXCEPT ![p].instructionId = instructionId,
                                     ![p].content = instructionContent(req[p].file),
                                     ![p].tempFilePath = path,
                                     ![p].pc = "drive",
                                     ![p].log = Append(@, Event("writeTemp"))]
          ELSE /\ tempFiles' = tempFiles
               /\ req' = [req EXCEPT ![p].instructionId = instructionId,
                                     ![p].content = instructionContent(req[p].file),
                                     ![p].tempFilePath = path,
                                     ![p].pc = "finally",
                                     ![p].resp = errorResponse(500, "Failed to upload instruction file")]
    /\ UNCHANGED <<env, now, started, budget, workers, instructionsCache, diskTxt, diskMeta, drive>>

\* Mutant of createResponse: a creation without backup is answered as an error.
createResponse_failsWithoutBackup(instructionId, file, content, driveFile) ==
    IF driveFile.success
    THEN [ status |-> 200, success |-> TRUE, instructionId |-> instructionId,
           fileName |-> NameStr(file.name), content |-> content, driveFile |-> driveFile,
           publicUrl |-> driveField(driveFile, "publicUrl"),
           directUrl |-> driveField(driveFile, "directUrl"),
           message |-> "File uploaded successfully with Google Drive backup" ]
    ELSE errorResponse(500, "Failed to upload instruction file")

\* Lines 110-121.
createResponse(instructionId, file, content, driveFile) ==
    [ status |-> 200,
      success |-> TRUE,
      instructionId |-> instructionId,
      fileName |-> NameStr(file.name),
      content |-> content,
      driveFile |-> driveFile,
      publicUrl |-> driveField(driveFile, "publicUrl"),
      directUrl |-> driveField(driveFile, "directUrl"),
      message |-> IF driveFile.success
                  THEN "File uploaded successfully with Google Drive backup"
                  ELSE "File stored in session (configure Google Drive for persistence)" ]

\* Lines 65-121: the uploadFile call completes (it is made whatever the
\* credentials; without them the Drive API rejects it), then the record is put in
\* the cache, saved to disk if possible, and the response is built.
CreateDrive(p, outcome, diskOutcome) ==
    /\ req[p].kind = "create" /\ req[p].pc = "drive"
    /\ ~hasGoogleDrive(env) => outcome = "createFails"
    /\ LET fileId == NewFileId(drive)
           result == uploadFile(outcome, fileId)
           driveFile == driveFileOf(result)
           id == req[p].instructionId
           instructionData == instructionDataOf(id, req[p].file, req[p].content,
                                                driveFile, now + 1)
       IN /\ drive' = DriveAfter(drive, outcome, fileId, id \o "_" \o NameStr(req[p].file.name))
          /\ instructionsCache' = MapSet(instructionsCache, id, instructionData)
          /\ diskTxt' = diskTxtAfterCreate(diskTxt, id, req[p].content, diskOutcome, now + 1)
          /\ diskMeta' = diskMetaAfterCreate(diskMeta, id, instructionData, diskOutcome)
          /\ req' = [req EXCEPT ![p].resp = createResponse(id, req[p].file, req[p].content, driveFile),
                                ![p].instructionData = instructionData,
                                ![p].pc = "finally",
                                ![p].log = Append(Append(@, [op |-> "uploadFile", outcome |-> outcome,
                                                             calls |-> driveCalls(outcome),
                                                             result |-> result]),
                                                  Event("respond"))]
    /\ now' = now + 1
    /\ UNCHANGED <<env, started, budget, workers, tempFiles>>

\* Lines 129-138.
CreateCleanup(p, unlinkOk) ==
    /\ req[p].kind = "create" /\ req[p].pc = "finally"
    /\ ~unlinkOk => req[p].tempFilePath \in tempFiles
    /\ tempFiles' = filesAfterCleanup(tempFiles, req[p].tempFilePath, unlinkOk)
    /\ req' = [req EXCEPT ![p].pc = "done",
                          ![p].log = IF req[p].tempFilePath \in tempFiles
                                     THEN Append(@, [op |-> "unlink", ok |-> unlinkOk])
                                     ELSE @]
    /\ UNCHANGED <<env, now, started, budget, workers, instructionsCache, diskTxt, diskMeta, drive>>


\* ------------------------------------------------------------------ generate-feedback, fill-pmp-checklist
\* Number of items of the PMP-A checklist (the fallback's Array.from({length: 8})).
ChecklistLength == 8

\* What model.generateContent(...) does: a text, which may be empty, or a throw
\* whose message does or does not contain 'API_KEY'.
FeedbackReplies ==
    { [kind |-> "text", text |-> "Feedback A"],
      [kind |-> "text", text |-> "Feedback B"],
      [kind |-> "text", text |-> ""],
      [kind |-> "authError"],
      [kind |-> "otherError"] }

ChecklistItems(n, verdict) ==
    [i \in 1..n |-> [srNo |-> i, checklist |-> "Item " \o ToString(i),
                     compliance |-> verdict, remark |-> "from AI"]]

\* The text the model answers to the checklist prompt, by what the parser sees in
\* it: a JSON object with a checklist array, one without that field, text holding
\* no JSON object, text whose braces do not parse, the empty text.
ChecklistReplies ==
    { [kind |-> "text", json |-> "checklist", items |-> ChecklistItems(ChecklistLength, "Yes")],
      [kind |-> "text", json |-> "checklist", items |-> ChecklistItems(2, "No")],
      [kind |-> "text", json |-> "noField"],
      [kind |-> "text", json |-> "noJson"],
      [kind |-> "text", json |-> "invalid"],
      [kind |-> "text", json |-> "empty"],
      [kind |-> "authError"],
      [kind |-> "otherError"] }

fallbackChecklist ==
    [i \in 1..ChecklistLength |->
        [srNo |-> i, checklist |-> "Checklist item " \o ToString(i),
         compliance |-> "Not Found",
         remark |-> "AI analysis failed to parse response"]]

\* Lines 392-410 of fill-pmp-checklist.
parseChecklist(reply) ==
    CASE reply.json = "checklist" -> reply.items
      [] reply.json = "invalid" -> fallbackChecklist
      [] OTHER -> <<>>

\* Lines 46-59 / 300-313: the metadata built from a cached record (JSON drops
\* the fields that are undefined).
metadataFromCache(c) ==
    LET base == [ id |-> c.id, fileName |-> c.fileName, createdAt |-> c.createdAt,
                  content |-> c.content ]
    IN IF "feedback" \in DOMAIN c THEN Spread(base, "feedback", c.feedback) ELSE base

\* Mutant of lookupStatus: the API key is checked before the instruction id.
lookupStatus_keyFirst(instructionId, e, cache, meta, txt) ==
    IF ~e.GEMINI_API_KEY THEN 500
    ELSE IF ~Truthy(instructionId) THEN 400
    ELSE IF instructionId \in DOMAIN cache THEN 200
    ELSE IF instructionId \notin DOMAIN meta THEN 404
    ELSE IF instructionId \notin DOMAIN txt THEN 404
    ELSE 200

\* Mutant of lookupStatus: the record is looked up before the API key is checked.
lookupStatus_lookupFirst(instructionId, e, cache, meta, txt) ==
    IF ~Truthy(instructionId) THEN 400
    ELSE IF instructionId \notin DOMAIN cache /\ instructionId \notin DOMAIN meta THEN 404
    ELSE IF instructionId \notin DOMAIN cache /\ instructionId \notin DOMAIN txt THEN 404
    ELSE IF ~e.GEMINI_API_KEY THEN 500
    ELSE 200

\* Mutant of lookupStatus: the API key is not checked before the lookup.
lookupStatus_noKeyCheck(instructionId, e, cache, meta, txt) ==
    IF ~Truthy(instructionId) THEN 400
    ELSE IF instructionId \in DOMAIN cache THEN 200
    ELSE IF instructionId \notin DOMAIN meta THEN 404
    ELSE IF instructionId \notin DOMAIN txt THEN 404
    ELSE 200

\* Lines 29-76 / 283-330: the checks made before the inference call, in order.
lookupStatus(instructionId, e, cache, meta, txt) ==
    IF ~Truthy(instructionId) THEN 400
    ELSE IF ~e.GEMINI_API_KEY THEN 500
    ELSE IF instructionId \in DOMAIN cache THEN 200
    ELSE IF instructionId \notin DOMAIN meta THEN 404
    ELSE IF instructionId \notin DOMAIN txt THEN 404
    ELSE 200

lookupError(instructionId, e, cache, meta) ==
    IF ~Truthy(instructionId) THEN "Instruction ID is required"
    ELSE IF ~e.GEMINI_API_KEY
    THEN "Gemini API key not configured. Please set GEMINI_API_KEY environment variable."
    ELSE IF instructionId \notin DOMAIN meta THEN "Instruction not found"
    ELSE "Instruction content not found"

\* The request's locals once the instruction has been read (or the error answered).
generateRequest(kind, instructionId, e, cache, meta, txt) ==
    LET st == lookupStatus(instructionId, e, cache, meta, txt)
        cached == st = 200 /\ instructionId \in DOMAIN cache
    IN [ kind |-> kind,
         pc |-> IF st = 200 THEN "generate" ELSE "done",
         instructionId |-> instructionId,
         cachedInstruction |-> IF cached THEN cache[instructionId] ELSE NullRec,
         metadata |-> IF st # 200 THEN NullRec
                      ELSE IF cached THEN metadataFromCache(cache[instructionId])
                      ELSE meta[instructionId],
         content |-> IF st # 200 THEN Null
                     ELSE IF cached THEN cache[instructionId].content
                     ELSE txt[instructionId].content,
         resp |-> IF st = 200 THEN NullRec
                  ELSE [ status |-> st, success |-> FALSE,
                         error |-> lookupError(instructionId, e, cache, meta) ],
         log |-> <<>> ]

\* generate-feedback lines 25-76.
FeedbackReceive(p, instructionId) ==
    /\ CanStart(p, "instruction")
    /\ started' = [started EXCEPT !.instruction = @ + 1]
    /\ req' = [req EXCEPT ![p] = generateRequest("feedback", instructionId, env,
                                                 instructionsCache, diskMeta, diskTxt)]
    /\ UNCHANGED <<env, now, budget, workers, tempFiles, instructionsCache, diskTxt, diskMeta, drive>>

\* The catch block of both routes (lines 185-199 / 441-455).
generateFailure(reply, what) ==
    IF reply.kind = "authError"
    THEN [ status |-> 401, success |-> FALSE,
           error |-> "Gemini API authentication failed. Please check your API key." ]
    ELSE [ status |-> 500, success |-> FALSE,
           error |-> "Internal server error while generating " \o what ]

\* Mutant of cacheAfterGenerate: the new value is appended to the stored one.
cacheAfterGenerate_append(cache, r, field, value) ==
    IF r.cachedInstruction # NullRec
    THEN MapSet(cache, r.instructionId,
                Spread(r.cachedInstruction, field,
                       IF field \in DOMAIN r.cachedInstruction
                       THEN r.cachedInstruction[field] \o value ELSE value))
    ELSE cache

\* Mutant of cacheAfterGenerate: the field is set on the record the cache holds at
\* the time of the write.
cacheAfterGenerate_fromCurrent(cache, r, field, value) ==
    IF r.cachedInstruction # NullRec
    THEN MapSet(cache, r.instructionId,
                Spread(IF r.instructionId \in DOMAIN cache THEN cache[r.instructionId]
                       ELSE r.cachedInstruction, field, value))
    ELSE cache

\* Lines 162-177 / 418-433: the cache is rewritten from the snapshot read before
\* the call when the record came from the cache; otherwise the metadata file is
\* rewritten if it still exists.
cacheAfterGenerate(cache, r, field, value) ==
    IF r.cachedInstruction # NullRec
    THEN MapSet(cache, r.instructionId, Spread(r.cachedInstruction, field, value))
    ELSE cache

metaAfterGenerate(meta, r, field, value) ==
    IF r.cachedInstruction = NullRec /\ r.instructionId \in DOMAIN meta
    THEN MapSet(meta, r.instructionId, Spread(r.metadata, field, value))
    ELSE meta

\* generate-feedback lines 144-183 and the catch.
FeedbackGenerate(p, reply) ==
    /\ req[p].kind = "feedback" /\ req[p].pc = "generate"
    /\ IF reply.kind = "text" /\ reply.text # ""
       THEN /\ instructionsCache' = cacheAfterGenerate(instructionsCache, req[p], "feedback", reply.text)
            /\ diskMeta' = metaAfterGenerate(diskMeta, req[p], "feedback", reply.text)
            /\ req' = [req EXCEPT ![p].pc = "done",
                                  ![p].resp = [ status |-> 200, success |-> TRUE,
                                                feedback |-> reply.text,
                                                instruction |-> Spread(req[p].metadata, "feedback", reply.text) ],
                                  ![p].log = Append(@, Event("generateContent"))]
       ELSE /\ UNCHANGED <<instructionsCache, diskMeta>>
            /\ req' = [req EXCEPT ![p].pc = "done",
                                  ![p].resp = IF reply.kind = "text"
                                              THEN [ status |-> 500, success |-> FALSE,
                                                     error |-> "Failed to generate feedback" ]
                                              ELSE generateFailure(reply, "feedback"),
                                  ![p].log = Append(@, Event("generateContent"))]
    /\ UNCHANGED <<env, now, started, budget, workers, tempFiles, diskTxt, drive>>

\* fill-pmp-checklist lines 279-330.
ChecklistReceive(p, instructionId) ==
    /\ CanStart(p, "instruction")
    /\ started' = [started EXCEPT !.instruction = @ + 1]
    /\ req' = [req EXCEPT ![p] = generateRequest("checklist", instructionId, env,
                                                 instructionsCache, diskMeta, diskTxt)]
    /\ UNCHANGED <<env, now, budget, workers, tempFiles, instructionsCache, diskTxt, diskMeta, drive>>

\* fill-pmp-checklist lines 380-439 and the catch.
ChecklistGenerate(p, reply) ==
    /\ req[p].kind = "checklist" /\ req[p].pc = "generate"
    /\ IF reply.kind = "text" /\ reply.json # "empty"
       THEN LET pmpChecklist == parseChecklist(reply)
            IN /\ instructionsCache' = cacheAfterGenerate(instructionsCache, req[p], "pmpChecklist", pmpChecklist)
               /\ diskMeta' = metaAfterGenerate(diskMeta, req[p], "pmpChecklist", pmpChecklist)
               /\ req' = [req EXCEPT ![p].pc = "done",
                                     ![p].resp = [ status |-> 200, success |-> TRUE,
                                                   checklist |-> pmpChecklist,
                                                   instruction |-> Spread(req[p].metadata, "pmpChecklist", pmpChecklist) ],
                                     ![p].log = Append(@, [op |-> "generateContent", reply |-> reply])]
       ELSE /\ UNCHANGED <<instructionsCache, diskMeta>>
            /\ req' = [req EXCEPT ![p].pc = "done",
                                  ![p].resp = IF reply.kind = "text"
                                              THEN [ status |-> 500, success |-> FALSE,
                                                     error |-> "Failed to generate checklist analysis" ]
                                              ELSE generateFailure(reply, "checklist"),
                                  ![p].log = Append(@, [op |-> "generateContent", reply |-> reply])]
    /\ UNCHANGED <<env, now, started, budget, workers, tempFiles, diskTxt, drive>>

\* ------------------------------------------------------------------ instruction route: list
\* Lines 157-169: the listed entry of a cached record.  (The 200-character preview
\* and the size, both computed from the content, are left out.)
cacheItem(item) ==
    [ id |-> item.id,
      fullContent |-> item.content,
      createdAt |-> item.createdAt,
      publicUrl |-> item.publicUrl,
      directUrl |-> item.directUrl,
      fileId |-> item.fileId,
      fileName |-> item.fileName,
      hasGoogleDriveBackup |-> item.hasGoogleDriveBackup ]

\* metadata?.field || null, where metadata is null when <id>.meta.json is missing.
metaField(meta, id, field) ==
    IF id \in DOMAIN meta THEN OrElse(meta[id][field], Null) ELSE Null

\* Lines 187-213: the listed entry built from <id>.txt and <id>.meta.json.
fileItem(id, txt, meta) ==
    [ id |-> id,
      fullContent |-> txt[id].content,
      createdAt |-> txt[id].birthtime,
      publicUrl |-> metaField(meta, id, "publicUrl"),
      directUrl |-> metaField(meta, id, "directUrl"),
      fileId |-> metaField(meta, id, "fileId"),
      fileName |-> OrElse(metaField(meta, id, "fileName"), id),
      hasGoogleDriveBackup |-> IF id \in DOMAIN meta THEN meta[id].hasGoogleDriveBackup
                               ELSE FALSE ]

\* The ids of a key set in creation order, which is the Map's insertion order and
\* the directory's name order, for the ids generated up to time t.
RECURSIVE idsUpTo(_, _)
idsUpTo(keys, t) ==
    IF t < 0 THEN <<>>
    ELSE idsUpTo(keys, t - 1) \o (IF IdOf(t) \in keys THEN <<IdOf(t)>> ELSE <<>>)

\* Line 229: Array.prototype.sort (stable), newest first.
RECURSIVE insertByDate(_, _)
insertByDate(sorted, x) ==
    IF sorted = <<>> THEN <<x>>
    ELSE IF Head(sorted).createdAt >= x.createdAt
         THEN <<Head(sorted)>> \o insertByDate(Tail(sorted), x)
         ELSE <<x>> \o sorted

RECURSIVE sortByDate(_)
sortByDate(items) ==
    IF items = <<>> THEN <<>>
    ELSE insertByDate(sortByDate(SubSeq(items, 1, Len(items) - 1)), items[Len(items)])

\* Mutant of listInstructions: files of cached ids are not skipped.
listInstructions_noSkip(cache, txt, meta, t, dirOk, unreadable) ==
    LET cacheIds == idsUpTo(DOMAIN cache, t)
        fileIds == SelectSeq(idsUpTo(DOMAIN txt, t), LAMBDA id : id \notin unreadable)
    IN sortByDate([i \in 1..Len(cacheIds) |-> cacheItem(cache[cacheIds[i]])]
                  \o (IF dirOk THEN [i \in 1..Len(fileIds) |-> fileItem(fileIds[i], txt, meta)]
                      ELSE <<>>))

\* Lines 156-229: the cached records first, then the content files of the ids that
\* are not cached (when the directory can be read; a file that cannot be read is
\* skipped), sorted by creation date.
listInstructions(cache, txt, meta, t, dirOk, unreadable) ==
    LET cacheIds == idsUpTo(DOMAIN cache, t)
        fileIds == SelectSeq(idsUpTo(DOMAIN txt, t),
                             LAMBDA id : id \notin DOMAIN cache /\ id \notin unreadable)
    IN sortByDate([i \in 1..Len(cacheIds) |-> cacheItem(cache[cacheIds[i]])]
                  \o (IF dirOk THEN [i \in 1..Len(fileIds) |-> fileItem(fileIds[i], txt, meta)]
                      ELSE <<>>))

\* GET /api/instructions (lines 141-236): synchronous, so one step.
ListInstructions(p, dirOk, unreadable) ==
    /\ CanStart(p, "instruction")
    /\ unreadable \subseteq DOMAIN diskTxt
    /\ ~dirOk => unreadable = {}
    /\ started' = [started EXCEPT !.instruction = @ + 1]
    /\ req' = [req EXCEPT ![p] =
         [ kind |-> "list",
           pc |-> "done",
           dirOk |-> dirOk,
           unreadable |-> unreadable,
           resp |-> [ status |-> 200, success |-> TRUE,
                      instructions |-> listInstructions(instructionsCache, diskTxt, diskMeta,
                                                        now, dirOk, unreadable) ],
           log |-> <<>> ]]
    /\ UNCHANGED <<env, now, budget, workers, tempFiles, instructionsCache, diskTxt, diskMeta, drive>>

\* ------------------------------------------------------------------ instruction route: delete, edit
\* The DELETE and PATCH handlers of /api/instructions, which the instructions page
\* calls (deleteInstruction, saveEditInstruction), after the specification:
\* records are deleted explicitly and edited in place, in the in-process map and
\* in the disk files; an unknown id is answered "not found"; the content of a
\* record classified as binary at creation is immutable.

\* map.delete(id)
MapRemove(m, id) == [k \in DOMAIN m \ {id} |-> m[k]]

\* The id has a record in the in-process map or a file on disk.
InStore(id, cache, txt, meta) ==
    id \in DOMAIN cache \/ id \in DOMAIN txt \/ id \in DOMAIN meta

\* Mutant of deleteStatus: an unknown id is answered as deleted.
deleteStatus_alwaysFound(id, cache, txt, meta) ==
    IF ~Truthy(id) THEN 400 ELSE 200

deleteStatus(id, cache, txt, meta) ==
    IF ~Truthy(id) THEN 400
    ELSE IF ~InStore(id, cache, txt, meta) THEN 404
    ELSE 200

mutationResponse(status, error) ==
    IF status = 200 THEN [status |-> 200, success |-> TRUE]
    ELSE [status |-> status, success |-> FALSE, error |-> error]

DeleteInstruction(p, id) ==
    /\ CanStart(p, "instruction")
    /\ started' = [started EXCEPT !.instruction = @ + 1]
    /\ LET st == deleteStatus(id, instructionsCache, diskTxt, diskMeta)
       IN /\ instructionsCache' = IF st = 200 THEN MapRemove(instructionsCache, id)
                                  ELSE instructionsCache
          /\ diskTxt' = IF st = 200 THEN MapRemove(diskTxt, id) ELSE diskTxt
          /\ diskMeta' = IF st = 200 THEN MapRemove(diskMeta, id) ELSE diskMeta
          /\ req' = [req EXCEPT ![p] =
               [ kind |-> "delete",
                 pc |-> "done",
                 instructionId |-> id,
                 resp |-> mutationResponse(st, IF st = 400 THEN "Instruction ID is required"
                                               ELSE "Instruction not found"),
                 log |-> <<>> ]]
    /\ UNCHANGED <<env, now, budget, workers, tempFiles, drive>>

\* The record's content is the placeholder its creation stored for a binary file.
isPlaceholder(content, fileName) ==
    content = "[Binary file: " \o fileName
              \o "] - Content will be processed by AI when analyzing files."

\* The file name under which the store knows the id.
storedFileName(id, cache, meta) ==
    IF id \in DOMAIN cache THEN cache[id].fileName
    ELSE IF id \in DOMAIN meta THEN meta[id].fileName
    ELSE id

storedContent(id, cache, txt) ==
    IF id \in DOMAIN cache THEN cache[id].content
    ELSE IF id \in DOMAIN txt THEN txt[id].content
    ELSE Null

\* Mutant of patchStatus: the content of a binary record is accepted for editing.
patchStatus_noBinaryCheck(id, cache, txt, meta) ==
    IF ~Truthy(id) THEN 400
    ELSE IF ~InStore(id, cache, txt, meta) THEN 404
    ELSE 200

patchStatus(id, cache, txt, meta) ==
    IF ~Truthy(id) THEN 400
    ELSE IF ~InStore(id, cache, txt, meta) THEN 404
    ELSE IF isPlaceholder(storedContent(id, cache, txt), storedFileName(id, cache, meta))
    THEN 400
    ELSE 200

\* { ...record, content, customPrompt } (customPrompt only when one is sent).
editedRecord(record, content, customPrompt) ==
    LET r == Spread(record, "content", content)
    IN IF Truthy(customPrompt) THEN Spread(r, "customPrompt", customPrompt) ELSE r

\* Texts and prompts the instructions page may send.
EditContents == {"edited"}
EditPrompts == {Null, "be strict"}

PatchInstruction(p, id, content, customPrompt) ==
    /\ CanStart(p, "instruction")
    /\ started' = [started EXCEPT !.instruction = @ + 1]
    /\ LET st == patchStatus(id, instructionsCache, diskTxt, diskMeta)
       IN /\ instructionsCache' =
                IF st = 200 /\ id \in DOMAIN instructionsCache
                THEN MapSet(instructionsCache, id,
                            editedRecord(instructionsCache[id], content, customPrompt))
                ELSE instructionsCache
          /\ diskTxt' =
                IF st = 200 /\ id \in DOMAIN diskTxt
                THEN MapSet(diskTxt, id, [diskTxt[id] EXCEPT !.content = content])
                ELSE diskTxt
          /\ diskMeta' =
                IF st = 200 /\ id \in DOMAIN diskMeta
                THEN MapSet(diskMeta, id, editedRecord(diskMeta[id], content, customPrompt))
                ELSE diskMeta
          /\ req' = [req EXCEPT ![p] =
               [ kind |-> "patch",
                 pc |-> "done",
                 instructionId |-> id,
                 resp |-> mutationResponse(st, IF ~Truthy(id) THEN "Instruction ID is required"
                                               ELSE IF st = 404 THEN "Instruction not found"
                                               ELSE "Binary instruction content cannot be edited"),
                 log |-> <<>> ]]
    /\ UNCHANGED <<env, now, budget, workers, tempFiles, drive>>

\* ------------------------------------------------------------------ process restart
\* The server process is restarted between requests: the module that holds
\* global.instructionsCache is loaded again with an empty Map; the disk, the temp
\* directories and the Drive keep their files.
Restart ==
    /\ \A p \in Procs : req[p].pc \in {"idle", "done"}
    /\ instructionsCache # EmptyMap
    /\ instructionsCache' = EmptyMap
    /\ req' = [p \in Procs |-> IdleReq]
    /\ UNCHANGED <<env, now, started, budget, workers, tempFiles, diskTxt, diskMeta, drive>>

\* ------------------------------------------------------------------ specification
Next ==
    \E p \in Procs :
        \/ \E file \in UploadFiles \cup {NullRec}, id \in RequestIds \cup {Null} :
               UploadReceive(p, file, id)
        \/ \E o \in {"ok", "mkdirFails", "writeFails"} : UploadWriteTemp(p, o)
        \/ UploadResolveInstruction(p)
        \/ \E statOk \in BOOLEAN : UploadLocalAnalysis(p, statOk)
        \/ \E o \in DriveOutcomes : UploadDrive(p, o)
        \/ \E o \in GeminiOutcomes, text \in GeminiTexts :
               (o # "ok" => text = "") /\ UploadGemini(p, o, text)
        \/ UploadRespond(p)
        \/ \E unlinkOk \in BOOLEAN : UploadCleanup(p, unlinkOk)
        \/ \E file \in InstructionFiles \cup {NullRec} : CreateReceive(p, file)
        \/ \E writeOk \in BOOLEAN : CreateWriteTemp(p, writeOk)
        \/ \E o \in DriveOutcomes, d \in DiskOutcomes : CreateDrive(p, o, d)
        \/ \E unlinkOk \in BOOLEAN : CreateCleanup(p, unlinkOk)
        \/ \E id \in RequestIds \cup {Null} : FeedbackReceive(p, id)
        \/ \E reply \in FeedbackReplies : FeedbackGenerate(p, reply)
        \/ \E id \in RequestIds \cup {Null} : ChecklistReceive(p, id)
        \/ \E reply \in ChecklistReplies : ChecklistGenerate(p, reply)
        \/ \E dirOk \in BOOLEAN, unreadable \in SUBSET RequestIds :
               ListInstructions(p, dirOk, unreadable)
        \/ \E id \in RequestIds \cup {Null} : DeleteInstruction(p, id)
        \/ \E id \in RequestIds \cup {Null}, content \in EditContents,
              customPrompt \in EditPrompts :
               PatchInstruction(p, id, content, customPrompt)
        \/ Restart

Spec == Init /\ [][Next]_vars

\* ------------------------------------------------------------------ concurrent creations
\* Number of instruction creations the server handles in a run in which both
\* request slots are active.
MaxConcurrentCreates == 2

\* A fresh server that handles creation requests in both slots at once.
InitConcurrentCreate ==
    /\ env \in Envs
    /\ StorageAllOrNone(env) /\ env.GEMINI_API_KEY
    /\ workers = Procs
    /\ started = [upload |-> 0, create |-> 0, instruction |-> 0]
    /\ budget = [upload |-> 0, create |-> MaxConcurrentCreates, instruction |-> 0]
    /\ req = [p \in Procs |-> IdleReq]
    /\ InitStore

\* The handlers interleave at their awaits: reading the form, the Drive upload.
\* The Drive upload succeeds or throws, the disk save succeeds or finds no directory.
NextConcurrentCreate ==
    \E p \in Procs :
        \/ \E file \in {f \in InstructionFiles : ValidAscii(f.bytes) \/ f.name.ext = ".bin"} :
               CreateReceive(p, file)
        \/ \E writeOk \in BOOLEAN : CreateWriteTemp(p, writeOk)
        \/ \E o \in {"ok", "createFails"}, d \in {"ok", "noDir"} : CreateDrive(p, o, d)
        \/ \E unlinkOk \in BOOLEAN : CreateCleanup(p, unlinkOk)

SpecConcurrentCreate == InitConcurrentCreate /\ [][NextConcurrentCreate]_vars


\* ------------------------------------------------------------------ concurrent generation
\* Number of generate requests the server handles in a run in which both request
\* slots are active.
MaxConcurrentGenerates == 2

\* A server that holds one created text instruction, has the API key, and handles
\* generate requests in both slots at once.
InitConcurrentGenerate ==
    /\ env \in Envs
    /\ StorageAllOrNone(env) /\ env.GEMINI_API_KEY
    /\ workers = Procs
    /\ started = [upload |-> 0, create |-> 0, instruction |-> 0]
    /\ budget = [upload |-> 0, create |-> 0, instruction |-> MaxConcurrentGenerates]
    /\ req = [p \in Procs |-> IdleReq]
    /\ CreatedStore({f \in InstructionFiles : ValidAscii(f.bytes)}, {"ok", "createFails"},
                    {"ok", "noDir"})

\* The handlers interleave at their await of the inference call.
NextConcurrentGenerate ==
    \E p \in Procs :
        \/ \E id \in RequestIds : FeedbackReceive(p, id)
        \/ \E reply \in FeedbackReplies : FeedbackGenerate(p, reply)
        \/ \E id \in RequestIds : ChecklistReceive(p, id)
        \/ \E reply \in ChecklistReplies : ChecklistGenerate(p, reply)

SpecConcurrentGenerate == InitConcurrentGenerate /\ [][NextConcurrentGenerate]_vars

\* ------------------------------------------------------------------ status route
\* A variable of process.env is unset, set to the empty string, or set to a value.
EnvValues == {Null, "", "value"}

\* process.env as the status route reads it.
StatusEnvs ==
    [ GOOGLE_PROJECT_ID : EnvValues, GOOGLE_PRIVATE_KEY : EnvValues,
      GOOGLE_SERVICE_ACCOUNT_EMAIL : EnvValues, GOOGLE_SHARED_DRIVE_ID : EnvValues,
      GEMINI_API_KEY : EnvValues ]

\* Mutant of googleDriveStatusOf: the shared-drive id is not looked at.
googleDriveStatusOf_ignoreSharedDrive(hasDrive, hasSharedDrive) ==
    IF hasDrive THEN "ready" ELSE "not-configured"

\* Line 24.
googleDriveStatusOf(hasDrive, hasSharedDrive) ==
    IF hasDrive THEN (IF hasSharedDrive THEN "ready" ELSE "needs-shared-drive")
    ELSE "not-configured"

\* Lines 42-63: the recommendations, in the order they are pushed.
recommendationsOf(hasDrive, hasSharedDrive, hasKey) ==
    (IF ~hasDrive THEN <<[service |-> "googleDrive", priority |-> "medium"]>>
     ELSE IF ~hasSharedDrive THEN <<[service |-> "googleDrive", priority |-> "high"]>>
     ELSE <<>>)
    \o (IF ~hasKey THEN <<[service |-> "gemini", priority |-> "medium"]>> ELSE <<>>)

\* Lines 6-65: the body of the status response.
statusOf(e) ==
    LET hasDrive == Truthy(e.GOOGLE_PROJECT_ID) /\ Truthy(e.GOOGLE_PRIVATE_KEY)
                       /\ Truthy(e.GOOGLE_SERVICE_ACCOUNT_EMAIL)
        hasKey == Truthy(e.GEMINI_API_KEY)
        hasSharedDrive == Truthy(e.GOOGLE_SHARED_DRIVE_ID)
    IN [ status |-> 200,
         services |->
           [ localAnalysis |-> [available |-> TRUE, status |-> "ready"],
             googleDrive |-> [ available |-> hasDrive,
                               status |-> googleDriveStatusOf(hasDrive, hasSharedDrive) ],
             geminiAnalysis |-> [ available |-> hasKey,
                                  status |-> IF hasKey THEN "ready" ELSE "not-configured" ] ],
         recommendations |-> recommendationsOf(hasDrive, hasSharedDrive, hasKey) ]

\* GET /api/status: synchronous, so one step.
StatusProbe(p) ==
    /\ p \in workers
    /\ req[p].pc = "idle"
    /\ req' = [req EXCEPT ![p] = [kind |-> "status", pc |-> "done", resp |-> statusOf(env),
                                  log |-> <<>>]]
    /\ UNCHANGED <<env, now, started, budget, workers, tempFiles, instructionsCache,
                   diskTxt, diskMeta, drive>>

\* A server started under any environment, which answers one status probe.
InitStatus ==
    /\ env \in StatusEnvs
    /\ workers = {"p1"}
    /\ started = [upload |-> 0, create |-> 0, instruction |-> 0]
    /\ budget = [upload |-> 0, create |-> 0, instruction |-> 0]
    /\ req = [p \in Procs |-> IdleReq]
    /\ InitStore

NextStatus == \E p \in Procs : StatusProbe(p)

SpecStatus == InitStatus /\ [][NextStatus]_vars


\* ------------------------------------------------------------------ properties: upload route
Answered(p) == req[p].resp # NullRec

IsUpload(p) == req[p].kind = "upload"

\* The calls of one kind the request has made so far, as logged.
Calls(p, op) == {i \in 1..Len(req[p].log) : req[p].log[i].op = op}

\* The completion of the request's uploadFile call / Gemini call succeeded.
DriveCallSucceeded(e) == ~e.result.thrown /\ e.result.success

StorageSucceeded(p) == \E i \in Calls(p, "uploadFile") : DriveCallSucceeded(req[p].log[i])

StorageFailed(p) == \E i \in Calls(p, "uploadFile") : ~DriveCallSucceeded(req[p].log[i])

InferenceSucceeded(p) ==
    \E i \in Calls(p, "analyzeFileWithInstruction") :
        ~req[p].log[i].result.thrown /\ req[p].log[i].result.success

InferenceFailed(p) ==
    \E i \in Calls(p, "analyzeFileWithInstruction") :
        req[p].log[i].result.thrown \/ ~req[p].log[i].result.success

StorageCredentialsSet ==
    env.GOOGLE_PROJECT_ID /\ env.GOOGLE_PRIVATE_KEY /\ env.GOOGLE_SERVICE_ACCOUNT_EMAIL

\* C1 as stated: every answered upload request that supplied a file has a response
\* with an analysis whose feedback is not null.
C1_Original ==
    \A p \in Procs :
        (IsUpload(p) /\ req[p].file # NullRec /\ Answered(p))
            => /\ "analysis" \in DOMAIN req[p].resp
               /\ req[p].resp.analysis.feedback # Null

\* C1 amended: every upload request whose transient file was written is answered
\* with the 200 response, which carries an analysis whose feedback is not null,
\* whatever the local analyzer, the storage and the inference did.
C1_FeedbackFloor ==
    \A p \in Procs :
        (IsUpload(p) /\ Answered(p) /\ Calls(p, "writeTemp") # {})
            => /\ req[p].resp.status = 200
               /\ "analysis" \in DOMAIN req[p].resp
               /\ "feedback" \in DOMAIN req[p].resp.analysis
               /\ req[p].resp.analysis.feedback # Null

\* C1 witness: the floor in its worst case: the local analyzer failed, the storage
\* upload threw, and the response still carries the analyzer's feedback text.
C1_Witness ==
    \E p \in Procs :
        /\ IsUpload(p) /\ req[p].pc = "done" /\ req[p].resp.status = 200
        /\ ~req[p].localResult.success
        /\ \E i \in Calls(p, "uploadFile") : req[p].log[i].result.thrown
        /\ req[p].resp.analysis = req[p].localResult

\* C2: when the storage upload and the inference call both succeeded, the
\* analysis of the response is the inference provider's result (its success flag
\* and feedback text), not the local analyzer's.
C2_InferenceSupersedes ==
    \A p \in Procs :
        (IsUpload(p) /\ Answered(p) /\ StorageSucceeded(p) /\ InferenceSucceeded(p))
            => /\ req[p].resp.status = 200
               /\ \E i \in Calls(p, "analyzeFileWithInstruction") :
                      /\ req[p].resp.analysis.success = req[p].log[i].result.success
                      /\ req[p].resp.analysis.feedback = req[p].log[i].result.feedback
               /\ req[p].resp.analysis # req[p].localResult
               /\ "fileInfo" \notin DOMAIN req[p].resp.analysis

C2_Witness ==
    \E p \in Procs :
        /\ IsUpload(p) /\ req[p].pc = "done"
        /\ StorageSucceeded(p) /\ InferenceSucceeded(p)
        /\ req[p].localResult.success
        /\ req[p].resp.analysis.feedback = "AI analysis"

\* C3: when the storage upload succeeded and GEMINI_API_KEY is not set, no
\* inference call is made and the analysis returned is the local analyzer's output.
C3_NoKeyKeepsLocal ==
    \A p \in Procs :
        (IsUpload(p) /\ StorageSucceeded(p) /\ ~env.GEMINI_API_KEY)
            => /\ Calls(p, "analyzeFileWithInstruction") = {}
               /\ Answered(p) => /\ req[p].resp.status = 200
                                 /\ req[p].resp.analysis = req[p].localResult
                                 /\ req[p].resp.serviceStatus.geminiAnalysis
                                        = "Gemini API not configured"

C3_Witness ==
    \E p \in Procs :
        /\ IsUpload(p) /\ req[p].pc = "done" /\ StorageSucceeded(p)
        /\ ~env.GEMINI_API_KEY
        /\ req[p].resp.analysis = req[p].localResult
        /\ req[p].resp.file.directUrl # Null

\* C4: when one of the three storage credentials is missing, no storage upload
\* is attempted, fileId, publicUrl and directUrl of the response are null and
\* serviceStatus.googleDrive says that Google Drive is not configured.
C4_StorageUnconfigured ==
    \A p \in Procs :
        (IsUpload(p) /\ ~StorageCredentialsSet)
            => /\ Calls(p, "uploadFile") = {}
               /\ (Answered(p) /\ req[p].resp.status = 200)
                    => /\ req[p].resp.file.fileId = Null
                       /\ req[p].resp.file.publicUrl = Null
                       /\ req[p].resp.file.directUrl = Null
                       /\ req[p].resp.serviceStatus.googleDrive = "Google Drive not configured"

\* C4 witness: only the service-account email is missing.
C4_Witness ==
    \E p \in Procs :
        /\ IsUpload(p) /\ req[p].pc = "done" /\ req[p].resp.status = 200
        /\ env.GOOGLE_PROJECT_ID /\ env.GOOGLE_PRIVATE_KEY
        /\ ~env.GOOGLE_SERVICE_ACCOUNT_EMAIL
        /\ req[p].resp.serviceStatus.googleDrive = "Google Drive not configured"


\* ------------------------------------------------------------------ properties: transient files
WritesTempFile(p) == req[p].kind \in {"upload", "create"}

Completed(p) == req[p].pc = "done"

\* C5 as stated: once a request that wrote a transient file has completed, the
\* file no longer exists.
C5_Original ==
    \A p \in Procs :
        (WritesTempFile(p) /\ Completed(p)) => req[p].tempFilePath \notin tempFiles

\* C5 amended: on every path of the upload and the instruction-creation route,
\* the finally block tries to delete the transient file if it was written, as the
\* request's last step; the file is gone once the request has completed unless
\* that unlink itself failed (the failure is caught and logged, the file stays).
C5_CleanupAttempted ==
    \A p \in Procs :
        (WritesTempFile(p) /\ Completed(p))
            => /\ Calls(p, "writeTemp") # {}
                    => req[p].log[Len(req[p].log)].op = "unlink"
               /\ req[p].tempFilePath \in tempFiles
                    => /\ req[p].log # <<>>
                       /\ req[p].log[Len(req[p].log)].op = "unlink"
                       /\ ~req[p].log[Len(req[p].log)].ok

\* C5 witnesses: an instruction creation whose Drive backup threw, and an upload
\* answered 200, both completed with the transient file deleted.
C5_Witness ==
    \E p \in Procs :
        /\ req[p].kind = "create" /\ Completed(p)
        /\ Calls(p, "writeTemp") # {}
        /\ \E i \in Calls(p, "uploadFile") : req[p].log[i].result.thrown
        /\ req[p].tempFilePath \notin tempFiles

\* ------------------------------------------------------------------ properties: degraded results
\* C6: a failed storage upload (failure value or throw) does not fail the request:
\* the response is success:true with status 200, serviceStatus.googleDrive is the
\* error string (the failure value's error, or the thrown message), the storage
\* fields are null and the analysis is the local analyzer's.
C6_StorageFailureDegrades ==
    \A p \in Procs :
        (IsUpload(p) /\ StorageFailed(p))
            => /\ Calls(p, "analyzeFileWithInstruction") = {}
               /\ Answered(p)
                    => /\ req[p].resp.status = 200
                       /\ req[p].resp.success
                       /\ \E i \in Calls(p, "uploadFile") :
                              req[p].resp.serviceStatus.googleDrive
                                  = IF req[p].log[i].result.thrown
                                    THEN req[p].log[i].result.message
                                    ELSE req[p].log[i].result.error
                       /\ req[p].resp.file.fileId = Null
                       /\ req[p].resp.file.publicUrl = Null
                       /\ req[p].resp.file.directUrl = Null
                       /\ req[p].resp.analysis = req[p].localResult

\* C6 witness: uploadFile returned the quota failure value.
C6_Witness ==
    \E p \in Procs :
        /\ IsUpload(p) /\ Completed(p) /\ env.GEMINI_API_KEY
        /\ \E i \in Calls(p, "uploadFile") :
               ~req[p].log[i].result.thrown /\ ~req[p].log[i].result.success
        /\ req[p].resp.serviceStatus.googleDrive
               = "Service account requires shared drive or OAuth delegation"

\* C7: when the inference call fails after a successful storage upload, the
\* analysis returned is the local analyzer's, serviceStatus.geminiAnalysis is the
\* inference error message, and the response is success:true with the storage URLs.
C7_InferenceFailureDegrades ==
    \A p \in Procs :
        (IsUpload(p) /\ Answered(p) /\ StorageSucceeded(p) /\ InferenceFailed(p))
            => /\ req[p].resp.status = 200
               /\ req[p].resp.success
               /\ req[p].resp.analysis = req[p].localResult
               /\ \E i \in Calls(p, "analyzeFileWithInstruction") :
                      req[p].resp.serviceStatus.geminiAnalysis = req[p].log[i].result.message
               /\ \E i \in Calls(p, "uploadFile") :
                      /\ req[p].resp.file.publicUrl = req[p].log[i].result.publicUrl
                      /\ req[p].resp.file.directUrl = req[p].log[i].result.directUrl
                      /\ req[p].resp.file.fileId = req[p].log[i].result.fileId
               /\ req[p].resp.serviceStatus.googleDrive = "success"

\* C7 witness: the inference call hit the rate limit.
C7_Witness ==
    \E p \in Procs :
        /\ IsUpload(p) /\ Completed(p) /\ StorageSucceeded(p)
        /\ req[p].resp.serviceStatus.geminiAnalysis
               = "Gemini API rate limit exceeded. Please try again in a few minutes."
        /\ req[p].resp.file.directUrl # Null

\* C8: the inference call is made only with the API key set and after the storage
\* upload of the same request has succeeded and produced a direct URL, which is
\* the URL the call is given.
C8_InferenceAfterStorage ==
    \A p \in Procs :
        IsUpload(p) =>
            \A i \in Calls(p, "analyzeFileWithInstruction") :
                /\ env.GEMINI_API_KEY
                /\ \E j \in Calls(p, "uploadFile") :
                       /\ j < i
                       /\ DriveCallSucceeded(req[p].log[j])
                       /\ Truthy(req[p].log[j].result.directUrl)
                       /\ req[p].log[i].fileUrl = req[p].log[j].result.directUrl

C8_Witness ==
    \E p \in Procs :
        /\ IsUpload(p) /\ req[p].pc = "respond"
        /\ Calls(p, "analyzeFileWithInstruction") # {}
        /\ Calls(p, "uploadFile") # {}


\* ------------------------------------------------------------------ properties: input and configuration errors
IsGenerate(p) == req[p].kind \in {"feedback", "checklist"}

\* The step on which slot p receives a request.
Received(p) ==
    /\ started' # started
    /\ \A q \in Procs \ {p} : req'[q] = req[q]

\* The request carries no file (upload, creation) or no instruction id (generate).
MissingInput(r) ==
    \/ r.kind \in {"upload", "create"} /\ r.file = NullRec
    \/ r.kind \in {"feedback", "checklist"} /\ ~Truthy(r.instructionId)

\* C9: an upload or instruction-creation request without a file, and a
\* generate-feedback or generate-checklist request without an instruction id, is
\* answered 400 on the step that receives it: the handler is finished, has made no
\* call, and the temp files, the cache, the disk and the Drive are unchanged.
C9_MissingInputRejected ==
    [][ \A p \in Procs :
          (Received(p) /\ MissingInput(req'[p]))
              => /\ req'[p].resp.status = 400
                 /\ req'[p].pc = "done"
                 /\ req'[p].log = <<>>
                 /\ UNCHANGED <<tempFiles, instructionsCache, diskTxt, diskMeta, drive>> ]_vars

\* C9 witness: a generate-feedback request without an id, answered 400.
C9_Witness ==
    \E p \in Procs :
        /\ req[p].kind = "feedback" /\ ~Truthy(req[p].instructionId)
        /\ req[p].resp.status = 400 /\ Completed(p)
        /\ ~env.GEMINI_API_KEY

AllCredentialsSet == StorageCredentialsSet /\ env.GEMINI_API_KEY

\* C10 as stated: on every endpoint a request made while a credential is absent
\* is served and not answered with an error status.
C10_Original ==
    \A p \in Procs :
        Answered(p) =>
            /\ (WritesTempFile(p) /\ Calls(p, "writeTemp") # {} /\ ~AllCredentialsSet)
                   => req[p].resp.status = 200
            /\ (IsGenerate(p) /\ Truthy(req[p].instructionId) /\ ~env.GEMINI_API_KEY)
                   => req[p].resp.status < 400

\* C10 amended: on the upload and the instruction-creation route a request made
\* while a storage or inference credential is absent is served with status 200,
\* the dependency being reported as not configured (upload) or the backup as
\* failed (creation); the generate-feedback and generate-checklist routes answer
\* 500 "Gemini API key not configured" when GEMINI_API_KEY is absent, without
\* calling the inference provider.
C10_MissingCredential ==
    \A p \in Procs :
        Answered(p) =>
            /\ (IsUpload(p) /\ Calls(p, "writeTemp") # {} /\ ~AllCredentialsSet)
                   => /\ req[p].resp.status = 200 /\ req[p].resp.success
                      /\ ~StorageCredentialsSet
                           => req[p].resp.serviceStatus.googleDrive = "Google Drive not configured"
                      /\ ~env.GEMINI_API_KEY
                           => req[p].resp.serviceStatus.geminiAnalysis = "Gemini API not configured"
            /\ (req[p].kind = "create" /\ Calls(p, "writeTemp") # {} /\ ~AllCredentialsSet)
                   => /\ req[p].resp.status = 200 /\ req[p].resp.success
                      /\ ~StorageCredentialsSet => ~req[p].resp.driveFile.success
                      /\ req[p].instructionId \in DOMAIN instructionsCache
            /\ (IsGenerate(p) /\ Truthy(req[p].instructionId) /\ ~env.GEMINI_API_KEY)
                   => /\ req[p].resp.status = 500
                      /\ req[p].resp.error
                           = "Gemini API key not configured. Please set GEMINI_API_KEY environment variable."
                      /\ req[p].log = <<>>

\* C10 witness: a generate-checklist request for a cached instruction, answered
\* 500 because the API key is absent.
C10_Witness ==
    \E p \in Procs :
        /\ req[p].kind = "checklist" /\ Completed(p)
        /\ req[p].instructionId \in DOMAIN instructionsCache
        /\ ~env.GEMINI_API_KEY
        /\ req[p].resp.status = 500

\* ------------------------------------------------------------------ properties: local analyzer failure
LocalAnalysisFailed(p) == req[p].localResult # NullRec /\ ~req[p].localResult.success

\* C11 as stated: an upload whose local analysis failed on the written temp file
\* is answered with a server-error status, never with a success response.
C11_Original ==
    \A p \in Procs :
        (IsUpload(p) /\ Answered(p) /\ LocalAnalysisFailed(p))
            => /\ req[p].resp.status >= 500
               /\ "success" \notin DOMAIN req[p].resp

\* C11 amended: the local analyzer catches its own filesystem failure and returns
\* a failure value, so the upload goes on and is answered 200 success:true; unless
\* the inference result superseded it, the analysis returned is that failure value
\* (success false, error "Failed to analyze file locally", a feedback text),
\* serviceStatus.localAnalysis is false and the message is the "limited features"
\* one.
C11_AnalyzerFailureDegrades ==
    \A p \in Procs :
        (IsUpload(p) /\ Answered(p) /\ LocalAnalysisFailed(p))
            => /\ req[p].resp.status = 200
               /\ req[p].resp.success
               /\ ~InferenceSucceeded(p)
                    => /\ req[p].resp.analysis = req[p].localResult
                       /\ ~req[p].resp.analysis.success
                       /\ req[p].resp.analysis.error = "Failed to analyze file locally"
                       /\ Truthy(req[p].resp.analysis.feedback)
                       /\ ~req[p].resp.serviceStatus.localAnalysis
                       /\ req[p].resp.message
                            = "File processed with limited features. Check configuration and try again."

\* C11 witness: the analyzer failed, no storage is configured, the request has
\* completed with the 200 response.
C11_Witness ==
    \E p \in Procs :
        /\ IsUpload(p) /\ Completed(p) /\ LocalAnalysisFailed(p)
        /\ ~StorageCredentialsSet
        /\ req[p].resp.status = 200
        /\ ~req[p].resp.serviceStatus.localAnalysis

\* ------------------------------------------------------------------ properties: single attempt
IsRateLimitFailure(e) == e.result.thrown /\ e.result.message = RateLimitMessage

\* C12: within one upload request the storage upload and the inference call are
\* each made at most once, whatever they return; an inference failure classified
\* as a rate-limit error is followed by no further storage or inference call and
\* is surfaced in serviceStatus.geminiAnalysis with its distinguished message.
C12_SingleAttempt ==
    \A p \in Procs :
        IsUpload(p) =>
            /\ Cardinality(Calls(p, "uploadFile")) <= 1
            /\ Cardinality(Calls(p, "analyzeFileWithInstruction")) <= 1
            /\ \A i \in Calls(p, "analyzeFileWithInstruction") :
                   IsRateLimitFailure(req[p].log[i])
                       => /\ req[p].pc \in {"respond", "finally", "done"}
                          /\ \A j \in (i + 1)..Len(req[p].log) :
                                 req[p].log[j].op \in {"respond", "unlink"}
                          /\ Answered(p)
                               => /\ req[p].resp.status = 200
                                  /\ req[p].resp.serviceStatus.geminiAnalysis = RateLimitMessage

\* C12 witness: a completed upload whose single inference call hit the rate limit
\* after its single storage upload.
C12_Witness ==
    \E p \in Procs :
        /\ IsUpload(p) /\ Completed(p)
        /\ Cardinality(Calls(p, "uploadFile")) = 1
        /\ \E i \in Calls(p, "analyzeFileWithInstruction") :
               /\ IsRateLimitFailure(req[p].log[i])
               /\ i < Len(req[p].log)

\* ------------------------------------------------------------------ properties: instruction content
\* The UTF-8 encoding of the texts of the model (what fs.writeFileSync writes).
utf8Encode(text) ==
    CASE text = "ok" -> <<111, 107>>
      [] text = "o" \o ReplacementChar -> <<111, 239, 191, 189>>
      [] OTHER -> <<>>

ValidUtf8(bytes) == ValidAscii(bytes)

HasTextExtension(file) == file.name.ext \in {".txt", ".md", ".csv", ".json"}

IsList(p) == req[p].kind = "list" /\ Answered(p)

\* The listing is the first request the server received after the creation.
ListsCreation(p) == IsList(p) /\ started.instruction = 1

\* The entries of a listing that were created from the file.
ListedFrom(p, file) ==
    {i \in 1..Len(req[p].resp.instructions) :
        req[p].resp.instructions[i].fileName = NameStr(file.name)}

CreatedOk(p) == req[p].kind = "create" /\ Answered(p) /\ req[p].resp.status = 200

\* C13 as stated: the content stored for a text file, and listed as fullContent
\* by a listing that follows the creation, is exactly the uploaded content (its UTF-8 encoding is the uploaded bytes); the
\* content stored for a non-text file is the placeholder naming the file.
C13_Original ==
    \A p \in Procs :
        /\ CreatedOk(p)
              => LET content == instructionsCache[req[p].instructionId].content
                 IN IF HasTextExtension(req[p].file)
                    THEN utf8Encode(content) = req[p].file.bytes
                    ELSE content = "[Binary file: rules.bin] - Content will be processed by AI when analyzing files."
        /\ ListsCreation(p)
              => \A file \in InstructionFiles : \A i \in ListedFrom(p, file) :
                     IF HasTextExtension(file)
                     THEN utf8Encode(req[p].resp.instructions[i].fullContent) = file.bytes
                     ELSE req[p].resp.instructions[i].fullContent
                              = "[Binary file: rules.bin] - Content will be processed by AI when analyzing files."

\* The content the creation handler keeps of a file.
ExpectedContent(file) ==
    CASE file.name.ext = ".bin" ->
           "[Binary file: " \o file.name.base \o ".bin] - Content will be processed by AI when analyzing files."
      [] file.bytes = <<111, 107>> -> "ok"
      [] OTHER -> "o<U+FFFD>"

\* C13 amended: the content stored for a text file, and listed as fullContent by
\* a listing that follows the creation, is the uploaded bytes decoded as UTF-8: it encodes back to the uploaded bytes when
\* these are valid UTF-8, and holds U+FFFD in place of every invalid byte
\* otherwise; the content stored for a non-text file is the placeholder naming the
\* file, whatever its bytes.
C13_ContentStored ==
    \A p \in Procs :
        /\ CreatedOk(p)
              => LET content == instructionsCache[req[p].instructionId].content
                 IN /\ content = ExpectedContent(req[p].file)
                    /\ req[p].resp.content = content
                    /\ (HasTextExtension(req[p].file) /\ ValidUtf8(req[p].file.bytes))
                           => utf8Encode(content) = req[p].file.bytes
        /\ ListsCreation(p)
              => \A file \in InstructionFiles : \A i \in ListedFrom(p, file) :
                     LET fullContent == req[p].resp.instructions[i].fullContent
                     IN /\ fullContent = ExpectedContent(file)
                        /\ (HasTextExtension(file) /\ ValidUtf8(file.bytes))
                               => utf8Encode(fullContent) = file.bytes

\* C13 witness: after a restart, the listing built from the disk files returns
\* the content of guide.txt.
C13_Witness ==
    \E p \in Procs :
        /\ ListsCreation(p) /\ instructionsCache = EmptyMap
        /\ Len(req[p].resp.instructions) = 1
        /\ req[p].resp.instructions[1].fileName = "guide.txt"
        /\ req[p].resp.instructions[1].fullContent = "ok"

\* ------------------------------------------------------------------ properties: delete
\* C14: a delete request for an id that has no record in the in-process map and
\* no file on disk is answered "not found" (404, success false) on the step that
\* receives it, and the map and the disk files are unchanged.
C14_DeleteUnknown ==
    [][ \A p \in Procs :
          ( /\ Received(p)
            /\ req'[p].kind = "delete"
            /\ Truthy(req'[p].instructionId)
            /\ ~InStore(req'[p].instructionId, instructionsCache, diskTxt, diskMeta) )
              => /\ req'[p].resp.status = 404
                 /\ ~req'[p].resp.success
                 /\ req'[p].resp.error = "Instruction not found"
                 /\ UNCHANGED <<instructionsCache, diskTxt, diskMeta>> ]_vars

\* C14 witness: a delete of an unknown id was answered 404 while the store holds
\* a record in the map and on disk.
C14_Witness ==
    \E p \in Procs :
        /\ req[p].kind = "delete" /\ Completed(p)
        /\ req[p].resp.status = 404
        /\ req[p].instructionId \notin DOMAIN instructionsCache
        /\ instructionsCache # EmptyMap
        /\ diskTxt # EmptyMap /\ diskMeta # EmptyMap

\* ------------------------------------------------------------------ properties: checklist
\* The step on which slot p's generate-checklist request succeeds.
ChecklistSucceeds(p) ==
    /\ req[p].kind = "checklist" /\ req[p].pc = "generate"
    /\ req'[p].pc = "done" /\ req'[p].resp.status = 200

\* C15: on every successful generate-checklist step the checklist stored on the
\* record (in the in-process map when the record was read from it, otherwise in
\* the disk metadata) becomes exactly the checklist this operation produced and
\* returned: the earlier checklist is replaced, nothing is appended.
C15_ChecklistReplaced ==
    [][ \A p \in Procs :
          ChecklistSucceeds(p)
              => LET id == req[p].instructionId
                 IN IF req[p].cachedInstruction # NullRec
                    THEN /\ id \in DOMAIN instructionsCache'
                         /\ instructionsCache'[id].pmpChecklist = req'[p].resp.checklist
                    ELSE id \in DOMAIN diskMeta
                           => diskMeta'[id].pmpChecklist = req'[p].resp.checklist ]_vars

\* C15 witness: a second generation on a record that held an 8-item checklist
\* has stored its own 2-item checklist.
C15_Witness ==
    \E p \in Procs :
        /\ req[p].kind = "checklist" /\ Completed(p) /\ req[p].resp.status = 200
        /\ req[p].cachedInstruction # NullRec
        /\ "pmpChecklist" \in DOMAIN req[p].cachedInstruction
        /\ Len(req[p].cachedInstruction.pmpChecklist) = ChecklistLength
        /\ Len(instructionsCache[req[p].instructionId].pmpChecklist) = 2
        /\ instructionsCache[req[p].instructionId].pmpChecklist[1].compliance = "No"

\* The checklists stored on instruction records, in the map and in the metadata files.
StoredChecklists ==
    {instructionsCache[id].pmpChecklist :
        id \in {k \in DOMAIN instructionsCache : "pmpChecklist" \in DOMAIN instructionsCache[k]}}
    \cup {diskMeta[id].pmpChecklist :
        id \in {k \in DOMAIN diskMeta : "pmpChecklist" \in DOMAIN diskMeta[k]}}

\* C16: every checklist stored on an instruction record by generate-checklist has
\* exactly 8 items, whatever text the inference provider returned.
C16_Original ==
    \A checklist \in StoredChecklists : Len(checklist) = ChecklistLength

\* ------------------------------------------------------------------ properties: binary content
\* The step is a successful edit of the record by slot p.
EditsRecord(p, id) ==
    /\ Received(p)
    /\ req'[p].kind = "patch" /\ req'[p].instructionId = id
    /\ req'[p].resp.status = 200

RecordUrl(id) ==
    IF id \in DOMAIN instructionsCache
    THEN OrElse(instructionsCache[id].directUrl, instructionsCache[id].publicUrl)
    ELSE IF id \in DOMAIN diskMeta
    THEN OrElse(diskMeta[id].directUrl, diskMeta[id].publicUrl)
    ELSE Null

\* C18: once an upload has resolved its instruction id, the instruction URL it
\* holds is the URL of the record the store (map or disk) has for that id, and
\* null when the id is absent, unknown or has no URL; that URL is what the local
\* analyzer and the inference call are given; an upload answered after its temp
\* file was written is answered 200 whatever the id.
C18_Original ==
    \A p \in Procs :
        (IsUpload(p) /\ Calls(p, "resolveInstruction") # {})
            => LET url == IF Truthy(req[p].instructionFileId)
                          THEN RecordUrl(req[p].instructionFileId) ELSE Null
               IN /\ req[p].instructionFileUrl = url
                  /\ \A i \in Calls(p, "analyzeFile") :
                         req[p].log[i].instructionFileUrl = OrElse(url, "")
                  /\ \A i \in Calls(p, "analyzeFileWithInstruction") :
                         req[p].log[i].instructionFileUrl = url
                  /\ Answered(p) => req[p].resp.status = 200

\* ------------------------------------------------------------------ properties: listing
\* C19: on every listing step the instructions returned hold each id at most
\* once, and the entry of an id that is in the in-process map is the one built
\* from the map's record, also when the id has files on disk.
C19_ListedOnceFromCache ==
    [][ \A p \in Procs :
          (Received(p) /\ req'[p].kind = "list")
              => LET listed == req'[p].resp.instructions
                 IN /\ \A i, j \in 1..Len(listed) :
                          listed[i].id = listed[j].id => i = j
                    /\ \A i \in 1..Len(listed) :
                          listed[i].id \in DOMAIN instructionsCache
                              => listed[i] = cacheItem(instructionsCache[listed[i].id])
                    /\ \A id \in DOMAIN instructionsCache :
                          \E i \in 1..Len(listed) : listed[i].id = id ]_vars

\* C19 witness: the listed id is in the map and on disk, where its content file
\* has no metadata file, so the entry built from the disk would differ.
C19_Witness ==
    \E p \in Procs :
        /\ IsList(p) /\ req[p].dirOk /\ req[p].unreadable = {}
        /\ Len(req[p].resp.instructions) = 1
        /\ LET id == req[p].resp.instructions[1].id
           IN /\ id \in DOMAIN instructionsCache /\ id \in DOMAIN diskTxt
              /\ req[p].resp.instructions[1] = cacheItem(instructionsCache[id])
              /\ req[p].resp.instructions[1] # fileItem(id, diskTxt, diskMeta)

\* ------------------------------------------------------------------ properties: concurrent creations
\* The creation of slot p whose cache write came later than that of slot q.
LaterWriter(p, q) ==
    IF req[p].instructionData.createdAt > req[q].instructionData.createdAt THEN p ELSE q

\* The records left by two successful creations handled in the two slots.
TwoCreationsOutcome ==
    \A p, q \in Procs :
        (p # q /\ started.create <= 2 /\ CreatedOk(p) /\ CreatedOk(q))
            => IF req[p].instructionId # req[q].instructionId
               THEN /\ DOMAIN instructionsCache = {req[p].instructionId, req[q].instructionId}
                    /\ \A r \in {p, q} :
                           /\ instructionsCache[req[r].instructionId] = req[r].instructionData
                           /\ instructionsCache[req[r].instructionId].fileName
                                  = NameStr(req[r].file.name)
                           /\ instructionsCache[req[r].instructionId].content
                                  = req[r].resp.content
               ELSE /\ DOMAIN instructionsCache = {req[p].instructionId}
                    /\ instructionsCache[req[p].instructionId]
                           = req[LaterWriter(p, q)].instructionData
                    /\ req[p].resp.success /\ req[q].resp.success
                    /\ req[p].resp.instructionId = req[q].resp.instructionId

\* The cache write of a creation sets the entry of its own id and no other.
CreationWritesOwnEntry ==
    \A p \in Procs :
        (req[p].kind = "create" /\ req[p].pc = "drive" /\ req'[p].pc = "finally")
            => /\ DOMAIN instructionsCache' = DOMAIN instructionsCache \cup {req[p].instructionId}
               /\ instructionsCache'[req[p].instructionId] = req'[p].instructionData
               /\ \A id \in DOMAIN instructionsCache \ {req[p].instructionId} :
                      instructionsCache'[id] = instructionsCache[id]

\* C20: concurrent creations are isolated by their id only.  A creation's cache
\* write sets the entry of its own id, overwriting what is there, and leaves the
\* other entries alone; so two successful creations with different ids leave two
\* records, each with its own file's name and content, and two that read the same
\* timestamp have the same id and leave one record, that of the later cache
\* write, for two successful responses.
C20_IsolatedByIdOnly ==
    []TwoCreationsOutcome /\ [][CreationWritesOwnEntry]_vars

\* C20 witness: two completed successful creations from different files with the
\* same id, and a single record, which is not the first writer's.
C20_Witness ==
    \E p, q \in Procs :
        /\ p # q /\ CreatedOk(p) /\ CreatedOk(q) /\ Completed(p) /\ Completed(q)
        /\ req[p].instructionId = req[q].instructionId
        /\ req[p].file # req[q].file
        /\ Cardinality(DOMAIN instructionsCache) = 1
        /\ LaterWriter(p, q) = q
        /\ instructionsCache[req[p].instructionId].fileName = NameStr(req[q].file.name)
        /\ instructionsCache[req[p].instructionId] # req[p].instructionData

\* ------------------------------------------------------------------ properties: status route
IsStatus(p) == req[p].kind = "status" /\ Answered(p)

\* The variable has a value (the empty string is no value).
EnvSet(name) == env[name] # Null /\ env[name] # ""

StorageSet ==
    EnvSet("GOOGLE_PROJECT_ID") /\ EnvSet("GOOGLE_PRIVATE_KEY")
        /\ EnvSet("GOOGLE_SERVICE_ACCOUNT_EMAIL")

\* C21: under every environment the status probe reports local analysis
\* available; storage available exactly when project id, private key and
\* service-account email are all set, and 'ready' exactly when the shared-drive id
\* is set too; inference available exactly when the API key is set; and no
\* recommendation exactly when storage, shared drive and inference are all set.
C21_StatusProbe ==
    \A p \in Procs :
        IsStatus(p) =>
            LET r == req[p].resp IN
            /\ r.status = 200
            /\ r.services.localAnalysis.available
            /\ r.services.localAnalysis.status = "ready"
            /\ r.services.googleDrive.available <=> StorageSet
            /\ r.services.googleDrive.status = "ready"
                   <=> (StorageSet /\ EnvSet("GOOGLE_SHARED_DRIVE_ID"))
            /\ r.services.googleDrive.status = "not-configured" <=> ~StorageSet
            /\ r.services.geminiAnalysis.available <=> EnvSet("GEMINI_API_KEY")
            /\ r.services.geminiAnalysis.status = "ready" <=> EnvSet("GEMINI_API_KEY")
            /\ r.recommendations = <<>>
                   <=> (StorageSet /\ EnvSet("GOOGLE_SHARED_DRIVE_ID")
                        /\ EnvSet("GEMINI_API_KEY"))

\* C21 witness: a probe answered with the storage credentials and the API key set
\* but no shared-drive id: storage is available, not ready, and recommended.
C21_Witness ==
    \E p \in Procs :
        /\ IsStatus(p)
        /\ StorageSet /\ EnvSet("GEMINI_API_KEY") /\ env.GOOGLE_SHARED_DRIVE_ID = Null
        /\ req[p].resp.services.googleDrive.available
        /\ req[p].resp.services.googleDrive.status = "needs-shared-drive"
        /\ Len(req[p].resp.recommendations) = 1

\* ------------------------------------------------------------------ properties: upload step order
\* The place of a logged step in the handler's fixed order.
StepRank(op) ==
    CASE op = "writeTemp" -> 1
      [] op = "resolveInstruction" -> 2
      [] op = "analyzeFile" -> 3
      [] op = "uploadFile" -> 4
      [] op = "analyzeFileWithInstruction" -> 5
      [] op = "respond" -> 6
      [] op = "unlink" -> 7

SuppliesFile(p) == IsUpload(p) /\ req[p].file # NullRec

RemoteCalls(p) == Calls(p, "uploadFile") \cup Calls(p, "analyzeFileWithInstruction")

\* C22 as stated: every completed upload request that supplied a file has run the
\* local analysis.
C22_Original ==
    \A p \in Procs :
        (SuppliesFile(p) /\ Completed(p)) => Calls(p, "analyzeFile") # {}

\* C22 (amended): in every upload request that supplied a file the steps taken
\* are in the order write temp file, resolve instruction, local analysis, storage
\* upload, inference, build response, delete temp file, each at most once; a
\* remote call is made only after the local analysis; and a completed request
\* whose temp file was written has resolved the instruction, run the local
\* analysis, built the response and deleted the temp file, with a storage attempt
\* exactly when the storage credentials are set.  A request whose temp file
\* cannot be written takes none of the steps but the deletion.
C22_StepOrder ==
    \A p \in Procs :
        SuppliesFile(p) =>
            /\ \A i, j \in 1..Len(req[p].log) :
                   i < j => StepRank(req[p].log[i].op) < StepRank(req[p].log[j].op)
            /\ RemoteCalls(p) # {} => Calls(p, "analyzeFile") # {}
            /\ (Completed(p) /\ Calls(p, "writeTemp") # {}) =>
                   /\ \A op \in {"resolveInstruction", "analyzeFile", "respond", "unlink"} :
                          Calls(p, op) # {}
                   /\ Calls(p, "uploadFile") # {} <=> StorageCredentialsSet
            /\ Calls(p, "writeTemp") = {}
                   => \A i \in 1..Len(req[p].log) : req[p].log[i].op = "unlink"

\* C22 witness: a completed upload request that took all seven steps.
C22_Witness ==
    \E p \in Procs :
        /\ SuppliesFile(p) /\ Completed(p)
        /\ [i \in 1..Len(req[p].log) |-> StepRank(req[p].log[i].op)] = <<1, 2, 3, 4, 5, 6, 7>>

\* ------------------------------------------------------------------ properties: upload response
UploadSucceeded(p) == IsUpload(p) /\ Answered(p) /\ req[p].resp.status = 200

\* The analysis of the response is what an inference call of the request returned.
ReturnsInference(p) ==
    \E i \in Calls(p, "analyzeFileWithInstruction") :
        /\ ~req[p].log[i].result.thrown
        /\ req[p].resp.analysis = [ success |-> req[p].log[i].result.success,
                                    feedback |-> req[p].log[i].result.feedback ]

\* The analysis of the response is the local heuristic's.
ReturnsLocal(p) == req[p].resp.analysis = req[p].localResult

\* C23: in every successful upload response serviceStatus.googleDrive is
\* 'success' exactly when file.publicUrl and file.directUrl are non-null (which is
\* when the storage call succeeded), and serviceStatus.geminiAnalysis is 'success'
\* exactly when the returned analysis is the inference call's result; otherwise
\* the returned analysis is the local heuristic's.
C23_StatusAgreesWithPayload ==
    \A p \in Procs :
        UploadSucceeded(p) =>
            LET r == req[p].resp IN
            /\ r.serviceStatus.googleDrive = "success"
                   <=> (r.file.publicUrl # Null /\ r.file.directUrl # Null)
            /\ r.serviceStatus.googleDrive = "success" <=> StorageSucceeded(p)
            /\ r.file.publicUrl = Null <=> r.file.directUrl = Null
            /\ r.serviceStatus.geminiAnalysis = "success" <=> ReturnsInference(p)
            /\ r.serviceStatus.geminiAnalysis = "success" <=> ~ReturnsLocal(p)

\* C23 witness: a successful upload response with both statuses 'success', both
\* URLs and the inference provider's analysis.
C23_Witness ==
    \E p \in Procs :
        /\ UploadSucceeded(p)
        /\ req[p].resp.serviceStatus.googleDrive = "success"
        /\ req[p].resp.serviceStatus.geminiAnalysis = "success"
        /\ req[p].resp.file.directUrl # Null /\ req[p].resp.file.publicUrl # Null
        /\ ReturnsInference(p) /\ ~ReturnsLocal(p)

\* ------------------------------------------------------------------ properties: generate errors
\* The id names a record the generate routes can read: one in the in-process map,
\* or a metadata file together with its content file.
Readable(id) ==
    id \in DOMAIN instructionsCache \/ (id \in DOMAIN diskMeta /\ id \in DOMAIN diskTxt)

\* The step on which slot p receives a generate request.
ReceivesGenerate(p) == Received(p) /\ req'[p].kind \in {"feedback", "checklist"}

\* The step on which the inference call of slot p's generate request ends.
EndsGenerate(p) == IsGenerate(p) /\ req[p].pc = "generate" /\ req'[p].pc = "done"

\* The step gives slot p's generate request an error response.
GenerateFails(p) ==
    \/ ReceivesGenerate(p) /\ req'[p].resp # NullRec
    \/ EndsGenerate(p) /\ req'[p].resp.status # 200

\* C24: a step that gives a generate-feedback or generate-checklist request an
\* error response leaves the in-process map and the disk files unchanged; the
\* request is checked for its id (400), then the API key (500), then the record
\* (404), so an unknown id without an API key is answered 500; a request that
\* passes the checks fails only with 500 or 401, on its inference call.
C24_ErrorsLeaveRecord ==
    [][ \A p \in Procs :
          /\ GenerateFails(p) => UNCHANGED <<instructionsCache, diskMeta, diskTxt>>
          /\ ReceivesGenerate(p) =>
                LET id == req'[p].instructionId IN
                IF ~Truthy(id) THEN req'[p].resp.status = 400
                ELSE IF ~env.GEMINI_API_KEY THEN req'[p].resp.status = 500
                ELSE IF ~Readable(id) THEN req'[p].resp.status = 404
                ELSE req'[p].resp = NullRec /\ req'[p].pc = "generate"
          /\ (EndsGenerate(p) /\ req'[p].resp.status # 200)
                => req'[p].resp.status \in {500, 401} ]_vars

\* C24 witness: a generate request for an id the store does not hold, made
\* without an API key, answered 500.
C24_Witness ==
    \E p \in Procs :
        /\ IsGenerate(p) /\ Completed(p)
        /\ Truthy(req[p].instructionId) /\ ~Readable(req[p].instructionId)
        /\ req[p].instructionId \notin DOMAIN diskMeta
        /\ ~env.GEMINI_API_KEY
        /\ req[p].resp.status = 500
        /\ instructionsCache # EmptyMap

\* ------------------------------------------------------------------ properties: concurrent generation
\* The field of the record that a generate route sets.
GeneratedField(kind) == IF kind = "feedback" THEN "feedback" ELSE "pmpChecklist"

\* What the successful response of the route carries for that field.
GeneratedValue(r) == IF r.kind = "feedback" THEN r.resp.feedback ELSE r.resp.checklist

\* Slot p's generate request succeeded on a record it had read from the cache.
GeneratedOnCache(p) ==
    /\ IsGenerate(p) /\ Completed(p) /\ req[p].resp.status = 200
    /\ req[p].cachedInstruction # NullRec

\* Two records differ at most in one field.
SameExcept(a, b, field) ==
    /\ DOMAIN a \ {field} = DOMAIN b \ {field}
    /\ \A k \in DOMAIN a \ {field} : a[k] = b[k]

\* C25 as stated: after a generate-feedback and a generate-checklist on the same
\* cached record have both succeeded, the record holds the feedback of the one
\* and the checklist of the other.
C25_Original ==
    \A p, q \in Procs :
        ( /\ GeneratedOnCache(p) /\ req[p].kind = "feedback"
          /\ GeneratedOnCache(q) /\ req[q].kind = "checklist"
          /\ req[p].instructionId = req[q].instructionId
          /\ started.instruction = 2 )
            => LET rec == instructionsCache[req[p].instructionId]
               IN /\ "feedback" \in DOMAIN rec /\ "pmpChecklist" \in DOMAIN rec
                  /\ rec.feedback = req[p].resp.feedback
                  /\ rec.pmpChecklist = req[q].resp.checklist

\* C25 (amended): a successful generate-feedback or generate-checklist on a
\* cached record stores the record it read when the request arrived, with its own
\* field set, and touches no other entry of the map.  If no other write came
\* between its read and its write, exactly its own field of the record changes;
\* if another generation wrote in between, that write is replaced by the
\* snapshot's value and is lost.
C25_WritesSnapshot ==
    [][ \A p \in Procs :
          (EndsGenerate(p) /\ req'[p].resp.status = 200 /\ req[p].cachedInstruction # NullRec)
              => LET id == req[p].instructionId
                     field == GeneratedField(req[p].kind)
                 IN /\ DOMAIN instructionsCache' = DOMAIN instructionsCache
                    /\ \A k \in DOMAIN instructionsCache \ {id} :
                           instructionsCache'[k] = instructionsCache[k]
                    /\ instructionsCache'[id][field] = GeneratedValue(req'[p])
                    /\ SameExcept(instructionsCache'[id], req[p].cachedInstruction, field)
                    /\ instructionsCache[id] = req[p].cachedInstruction
                           => SameExcept(instructionsCache'[id], instructionsCache[id], field)
                    /\ \A other \in DOMAIN instructionsCache[id] \ {field} :
                           other \notin DOMAIN req[p].cachedInstruction
                               => other \notin DOMAIN instructionsCache'[id] ]_vars

\* C25 witness: a generate-feedback and a generate-checklist on the same cached
\* record have both succeeded, and the record holds the checklist but no feedback.
C25_Witness ==
    \E p, q \in Procs :
        /\ GeneratedOnCache(p) /\ req[p].kind = "feedback"
        /\ GeneratedOnCache(q) /\ req[q].kind = "checklist"
        /\ req[p].instructionId = req[q].instructionId
        /\ "pmpChecklist" \in DOMAIN instructionsCache[req[p].instructionId]
        /\ "feedback" \notin DOMAIN instructionsCache[req[p].instructionId]

\* ------------------------------------------------------------------ properties: map and disk
\* record.field, undefined read as null.
FieldOf(record, field) == IF field \in DOMAIN record THEN record[field] ELSE Null

\* C26: for every instruction id that is both in the in-process map and in the
\* disk metadata, the feedback and the checklist of the disk metadata equal those
\* of the in-process record (so that emptying the map loses neither).
C26_Original ==
    \A id \in DOMAIN instructionsCache \cap DOMAIN diskMeta :
        /\ FieldOf(diskMeta[id], "feedback") = FieldOf(instructionsCache[id], "feedback")
        /\ FieldOf(diskMeta[id], "pmpChecklist") = FieldOf(instructionsCache[id], "pmpChecklist")

\* ------------------------------------------------------------------ properties: created records
\* The backup fields of a record agree with its backup flag.
BackupFieldsAgree(record) ==
    /\ ~record.hasGoogleDriveBackup
           => record.publicUrl = Null /\ record.directUrl = Null /\ record.fileId = Null
    /\ record.hasGoogleDriveBackup
           => record.publicUrl # Null /\ record.directUrl # Null

\* Slot p's creation has written its record.
WroteRecord(p) == req[p].kind = "create" /\ req[p].instructionData # NullRec

\* The completion of the backup call of slot p's creation.
BackupResult(p) == req[p].log[CHOOSE i \in Calls(p, "uploadFile") : TRUE].result

\* C27: every record written by an instruction creation has publicUrl, directUrl
\* and fileId null when hasGoogleDriveBackup is false, and publicUrl and directUrl
\* non-null when it is true; the flag is true exactly when the backup call
\* returned a success, and false after a failure result and after a thrown error.
\* The records in the in-process map and in the disk metadata satisfy the same.
C27_BackupFieldsAgree ==
    /\ \A p \in Procs :
           WroteRecord(p) =>
               /\ BackupFieldsAgree(req[p].instructionData)
               /\ req[p].instructionData.hasGoogleDriveBackup
                      <=> (~BackupResult(p).thrown /\ BackupResult(p).success)
    /\ \A id \in DOMAIN instructionsCache : BackupFieldsAgree(instructionsCache[id])
    /\ \A id \in DOMAIN diskMeta : BackupFieldsAgree(diskMeta[id])

\* C27 witness: a creation whose backup call threw has written a record without
\* backup and with null URLs and file id, which is in the in-process map.
C27_Witness ==
    \E p \in Procs :
        /\ WroteRecord(p)
        /\ BackupResult(p).thrown
        /\ ~req[p].instructionData.hasGoogleDriveBackup
        /\ req[p].instructionData.publicUrl = Null /\ req[p].instructionData.fileId = Null
        /\ instructionsCache[req[p].instructionId] = req[p].instructionData

\* ------------------------------------------------------------------ properties: creation outcomes
\* Slot p's creation has made its backup call.
BackupAttempted(p) == req[p].kind = "create" /\ Calls(p, "uploadFile") # {}

BackupSucceeded(p) == ~BackupResult(p).thrown /\ BackupResult(p).success

\* C28: an instruction creation that supplied a file and reached its backup call
\* is answered 200 with success:true and has put its record in the in-process
\* map, whether the backup succeeded, returned a failure or threw, and whether or
\* not the local disk save wrote its files.  The id, file name and content of the
\* response and of the record are those of the request; only the backup fields
\* and the message depend on the backup's outcome.
C28_CreationSucceeds ==
    \A p \in Procs :
        BackupAttempted(p) =>
            LET id == req[p].instructionId
                r == req[p].resp
            IN /\ r.status = 200 /\ r.success
               /\ r.instructionId = id
               /\ r.fileName = NameStr(req[p].file.name)
               /\ r.content = instructionContent(req[p].file)
               /\ r.message = (IF BackupSucceeded(p)
                               THEN "File uploaded successfully with Google Drive backup"
                               ELSE "File stored in session (configure Google Drive for persistence)")
               /\ r.driveFile.success <=> BackupSucceeded(p)
               /\ id \in DOMAIN instructionsCache
               /\ instructionsCache[id].id = id
               /\ instructionsCache[id].fileName = r.fileName
               /\ instructionsCache[id].content = r.content
               /\ instructionsCache[id].hasGoogleDriveBackup <=> BackupSucceeded(p)
               /\ instructionsCache[id].publicUrl = r.publicUrl
               /\ instructionsCache[id].directUrl = r.directUrl

\* C28 witness: a completed creation whose backup call threw and whose disk save
\* wrote nothing, answered success with the record in the in-process map.
C28_Witness ==
    \E p \in Procs :
        /\ BackupAttempted(p) /\ Completed(p)
        /\ BackupResult(p).thrown
        /\ req[p].instructionId \notin DOMAIN diskTxt
        /\ req[p].instructionId \notin DOMAIN diskMeta
        /\ req[p].resp.success
        /\ req[p].instructionId \in DOMAIN instructionsCache

\* ------------------------------------------------------------------ properties: checklist fallback
\* The checklist is the default one: 8 items numbered 1 to 8, each 'Not Found'.
IsDefaultChecklist(c) ==
    /\ Len(c) = ChecklistLength
    /\ \A i \in 1..Len(c) : c[i].srNo = i /\ c[i].compliance = "Not Found"

\* The inference reply was a text that yields no parsable checklist.
Unparsable(reply) == reply.kind = "text" /\ reply.json \in {"noJson", "invalid", "noField"}

\* C29: a completed generate-checklist request whose inference reply held no JSON
\* object, invalid JSON, or JSON without a checklist field has returned, and
\* stored on the record, the default checklist of 8 'Not Found' items.
C29_Original ==
    \A p \in Procs :
        (req[p].kind = "checklist" /\ Completed(p))
            => \A i \in Calls(p, "generateContent") :
                   Unparsable(req[p].log[i].reply)
                       => /\ req[p].resp.status = 200
                          /\ IsDefaultChecklist(req[p].resp.checklist)
                          /\ IsDefaultChecklist(req[p].resp.instruction.pmpChecklist)

\* ------------------------------------------------------------------ properties: uploadFile
\* The uploadFile calls the requests have made, as logged.
UploadFileCalls ==
    UNION {{req[p].log[i] : i \in Calls(p, "uploadFile")} : p \in Procs}

\* C30: uploadFile returns a success result, with public and direct URLs, only
\* after files.create and then permissions.create were sent and succeeded, so
\* that the file is on the Drive and readable by anyone; a storage-quota error
\* is returned as a failure value with null fileId and URLs; any other failure
\* of the create or of the permission grant is thrown.
C30_Original ==
    \A e \in UploadFileCalls :
        /\ (~e.result.thrown /\ e.result.success)
               => /\ e.calls = <<"files.create", "permissions.create">>
                  /\ e.result.publicUrl # Null /\ e.result.directUrl # Null
                  /\ \E f \in drive : f.id = e.result.fileId /\ f.public
        /\ e.outcome = "quota"
               => /\ ~e.result.thrown /\ ~e.result.success
                  /\ e.result.fileId = Null
                  /\ e.result.publicUrl = Null /\ e.result.directUrl = Null
        /\ e.outcome \in {"createFails", "permissionFails"} => e.result.thrown

====
